---------------------------- MODULE Spec2Model ----------------------------
(***************************************************************************)
(* Plant monitor firmware (SoilMonitorRev2): the BLE command/response      *)
(* engine (ble_manager), the sampling task (main.c), the clock and the     *)
(* ring store (data_buffer), modelled as one state machine.                *)
(*                                                                         *)
(* Conventions                                                             *)
(*  - a C string is a sequence of character codes without the NUL;        *)
(*    a char buffer is a sequence of bytes, 0 being the NUL;               *)
(*  - time_t is counted in seconds since 1970-01-01 00:00 UTC; the         *)
(*    firmware stores struct tm, the model converts with LocalTime and     *)
(*    MkTime; the clock reads 0 until the first SNTP synchronisation;      *)
(*  - an array that data_buffer_init() zero-fills is a function defined    *)
(*    on the indices written so far; every other index reads as the       *)
(*    zero-filled element;                                                 *)
(*  - float fields are integers in the unit of the field.                  *)
(*                                                                         *)
(* Assumptions                                                             *)
(*  - ble_manager.h holds the implementation in use (ble_manager.c is an   *)
(*    earlier copy with fewer commands);                                   *)
(*  - the build has no compiled-in SSID (wifi_credentials.h is not part    *)
(*    of the sources), so g_wifi_config is empty after boot;               *)
(*  - the host stack delivers connection events between command            *)
(*    callbacks, never inside one.                                         *)
(***************************************************************************)
EXTENDS Integers, Sequences, FiniteSets, TLC

(***************************************************************************)
(* Bounds of the model (not program constants).                            *)
(***************************************************************************)
MaxTicks == 2          \* sampling ticks per behaviour
MaxReadCount == 1      \* cap of the sensor-read counter (uint32 in the code)

(***************************************************************************)
(* Program constants.                                                      *)
(***************************************************************************)
\* a response buffer of a quarter of the size
QuarterBuffer == 256 \div 4

BLE_RESPONSE_BUFFER_SIZE == 256
BLE_HS_CONN_HANDLE_NONE == 65535
SIZEOF_COMMAND_PACKET == 4
SIZEOF_RESPONSE_PACKET == 5
SIZEOF_TIME_DATA_REQUEST == 36
SIZEOF_TIME_DATA_RESPONSE == 52
SIZEOF_DEVICE_INFO == 72
SIZEOF_WIFI_CONFIG_DATA == 96
SIZEOF_SYSTEM_STATUS == 24
SIZEOF_PLANT_PROFILE == 56
SIZEOF_SOIL_DATA == 96
WIFI_SSID_FIELD == 32
WIFI_PASSWORD_FIELD == 64
MAX_TIMEZONE_LENGTH == 64
DATA_BUFFER_MINUTES_PER_DAY == 1440
DATA_BUFFER_DAYS_PER_MONTH == 30

CMD_GET_SENSOR_DATA == 1
CMD_GET_SYSTEM_STATUS == 2
CMD_SET_PLANT_PROFILE == 3
CMD_GET_HISTORY_DATA == 4
CMD_SYSTEM_RESET == 5
CMD_GET_DEVICE_INFO == 6
CMD_GET_TIME_DATA == 10
CMD_GET_SWITCH_STATUS == 11
CMD_GET_PLANT_PROFILE == 12
CMD_SET_WIFI_CONFIG == 13
CMD_GET_WIFI_CONFIG == 14
CMD_WIFI_CONNECT == 15
CMD_GET_TIMEZONE == 16
CMD_SYNC_TIME == 17
CMD_WIFI_DISCONNECT == 18
CMD_SAVE_WIFI_CONFIG == 19
CMD_SAVE_PLANT_PROFILE == 20
CMD_SET_TIMEZONE == 21
CMD_SAVE_TIMEZONE == 22
CMD_GET_SENSOR_DATA_V2 == 23
CMD_UNKNOWN_FF == 255

RESP_STATUS_SUCCESS == 0
RESP_STATUS_ERROR == 1
RESP_STATUS_INVALID_COMMAND == 2
RESP_STATUS_INVALID_PARAMETER == 3
RESP_STATUS_BUSY == 4
RESP_STATUS_NOT_SUPPORTED == 5

ESP_OK == 0
ESP_FAIL == -1
ESP_ERR_NOT_FOUND == 261
ESP_ERR_INVALID_STATE == 259
ESP_ERR_INVALID_ARG == 258
ESP_ERR_INVALID_SIZE == 260
ESP_ERR_NVS_NOT_FOUND == 4354
ESP_ERR_NVS_INVALID_LENGTH == 4364

BLE_ATT_ERR_WRITE_NOT_PERMITTED == 3
BLE_ATT_ERR_INVALID_ATTR_VALUE_LEN == 13


(***************************************************************************)
(* C strings and char buffers.                                             *)
(***************************************************************************)
NUL == 0
CH_STAR == 42

Min(a, b) == IF a < b THEN a ELSE b

\* n NUL bytes: memset(buf, 0, n)
ZeroBuf(n) == [i \in 1..n |-> NUL]

\* strlen(): the number of bytes before the first NUL of a buffer
RECURSIVE StrLenFrom(_, _)
StrLenFrom(buf, i) ==
    IF i > Len(buf) \/ buf[i] = NUL THEN i - 1 ELSE StrLenFrom(buf, i + 1)
StrLen(buf) == StrLenFrom(buf, 1)

\* the C string a buffer holds
CStr(buf) == SubSeq(buf, 1, StrLen(buf))

\* strncpy(dst, src, n): n bytes are written; the bytes after the end of src
\* are NUL, and no NUL is written when src has n characters or more
StrNCpy(dst, src, n) ==
    [i \in 1..Len(dst) |->
        IF i <= n THEN (IF i <= Len(src) THEN src[i] ELSE NUL) ELSE dst[i]]

\* strcat(dst, s): s and a NUL are written from the first NUL of dst on
StrCat(dst, s) ==
    LET k == StrLen(dst)
    IN [i \in 1..Len(dst) |->
          IF i <= k THEN dst[i]
          ELSE IF i <= k + Len(s) THEN s[i - k]
          ELSE IF i = k + Len(s) + 1 THEN NUL
          ELSE dst[i]]

\* buf[n - 1] = '\0' on a buffer of n bytes (1-based index n)
Terminate(buf) == [buf EXCEPT ![Len(buf)] = NUL]

\* a payload field of n bytes that carries the C string s, zero padded
Field(s, n) == [i \in 1..n |-> IF i <= Len(s) THEN s[i] ELSE NUL]

(***************************************************************************)
(* Clock: time_t in seconds, struct tm as a record.  localtime_r() and     *)
(* mktime() are the proleptic Gregorian conversions shifted by nine hours: *)
(* the compiled default timezone is "JST-9", and every timezone a client   *)
(* of the model sets ("KST-9") has the same offset.                        *)
(***************************************************************************)
SECS_PER_MIN == 60
SECS_PER_HOUR == 3600
SECS_PER_DAY == 86400
TZ_OFFSET_HOURS == 9
SENSOR_READ_INTERVAL_MS == 60000

\* days since 1970-01-01 of the civil date y-m-d (m in 1..12)
DaysFromCivil(y, m, d) ==
    LET yy  == IF m <= 2 THEN y - 1 ELSE y
        era == yy \div 400
        yoe == yy - era * 400
        mp  == IF m > 2 THEN m - 3 ELSE m + 9
        doy == (153 * mp + 2) \div 5 + d - 1
        doe == yoe * 365 + yoe \div 4 - yoe \div 100 + doy
    IN era * 146097 + doe - 719468

\* the civil date of a day number
CivilFromDays(z) ==
    LET zz  == z + 719468
        era == zz \div 146097
        doe == zz - era * 146097
        yoe == (doe - doe \div 1460 + doe \div 36524 - doe \div 146096) \div 365
        doy == doe - (365 * yoe + yoe \div 4 - yoe \div 100)
        mp  == (5 * doy + 2) \div 153
        d   == doy - (153 * mp + 2) \div 5 + 1
        m   == IF mp < 10 THEN mp + 3 ELSE mp - 9
        y   == yoe + era * 400 + (IF m <= 2 THEN 1 ELSE 0)
    IN [y |-> y, m |-> m, d |-> d]

\* localtime_r(&t, &tm)
LocalTime(t) ==
    LET lt  == t + TZ_OFFSET_HOURS * SECS_PER_HOUR
        day == lt \div SECS_PER_DAY
        sod == lt % SECS_PER_DAY
        c   == CivilFromDays(day)
    IN [tm_year |-> c.y - 1900, tm_mon |-> c.m - 1, tm_mday |-> c.d,
        tm_hour |-> sod \div SECS_PER_HOUR,
        tm_min  |-> (sod % SECS_PER_HOUR) \div SECS_PER_MIN,
        tm_sec  |-> sod % SECS_PER_MIN]

\* mktime(&tm)
MkTime(tm) ==
    DaysFromCivil(tm.tm_year + 1900, tm.tm_mon + 1, tm.tm_mday) * SECS_PER_DAY
      + tm.tm_hour * SECS_PER_HOUR + tm.tm_min * SECS_PER_MIN + tm.tm_sec
      - TZ_OFFSET_HOURS * SECS_PER_HOUR

\* memset(&tm, 0, sizeof tm)
ZeroTm == [tm_year |-> 0, tm_mon |-> 0, tm_mday |-> 0,
           tm_hour |-> 0, tm_min |-> 0, tm_sec |-> 0]

\* values an SNTP synchronisation may step the clock to: 2025-01-15 03:34:00
\* UTC (12:34 JST) and one sampling period before it
SyncTimes == { DaysFromCivil(2025, 1, 15) * SECS_PER_DAY + 3 * SECS_PER_HOUR + 34 * SECS_PER_MIN,
               DaysFromCivil(2025, 1, 15) * SECS_PER_DAY + 3 * SECS_PER_HOUR + 33 * SECS_PER_MIN }

(***************************************************************************)
(* Ring store (data_buffer.c).  Sensor values are integers (the unit of    *)
(* the float field); an average is kept as the exact quotient sum/count.   *)
(***************************************************************************)
\* g_minute_buffer[i] after memset and valid = false
ZeroSlot == [timestamp |-> ZeroTm, temperature |-> 0, humidity |-> 0, lux |-> 0,
             soil_moisture |-> 0, soil_temperature |-> 0, valid |-> FALSE]

\* g_minute_buffer[i]
MinuteSlot(buf, i) == IF i \in DOMAIN buf THEN buf[i] ELSE ZeroSlot

\* the indices i with g_minute_buffer[i].valid
ValidSlots(buf) == {i \in DOMAIN buf : buf[i].valid}

is_same_day(tm1, tm2) ==
    /\ tm1.tm_year = tm2.tm_year
    /\ tm1.tm_mon = tm2.tm_mon
    /\ tm1.tm_mday = tm2.tm_mday

is_same_minute(tm1, tm2) ==
    /\ tm1.tm_year = tm2.tm_year
    /\ tm1.tm_mon = tm2.tm_mon
    /\ tm1.tm_mday = tm2.tm_mday
    /\ tm1.tm_hour = tm2.tm_hour
    /\ tm1.tm_min = tm2.tm_min

copy_tm_date_only(src) ==
    [src EXCEPT !.tm_hour = 0, !.tm_min = 0, !.tm_sec = 0]

get_daily_index_by_date(date) ==
    ((date.tm_mon * 31) + date.tm_mday) % DATA_BUFFER_DAYS_PER_MONTH

\* the measured fields of a slot, the ones the summary loop accumulates
Measured(slot) ==
    [temperature |-> slot.temperature, humidity |-> slot.humidity,
     lux |-> slot.lux, soil_moisture |-> slot.soil_moisture,
     soil_temperature |-> slot.soil_temperature]

\* the slots S of the loop, tallied: each distinct measurement m with the
\* number n of slots that hold it
Tally(buf, S) ==
    LET D == {Measured(buf[i]) : i \in S}
    IN {[m |-> r, n |-> Cardinality({i \in S : Measured(buf[i]) = r})] : r \in D}

\* valid_count of the loop
RECURSIVE CountOver(_)
CountOver(T) ==
    IF T = {} THEN 0
    ELSE LET t == CHOOSE u \in T : TRUE
         IN t.n + CountOver(T \ {t})

\* the sum of a field over the loop
RECURSIVE SumOver(_, _)
SumOver(T, fld) ==
    IF T = {} THEN 0
    ELSE LET t == CHOOSE u \in T : TRUE
         IN t.m[fld] * t.n + SumOver(T \ {t}, fld)

\* the running minimum / maximum of the loop, started from its sentinel
RunMin(T, fld, start) ==
    LET V == {t.m[fld] : t \in T} \cup {start}
    IN CHOOSE v \in V : \A w \in V : v <= w
RunMax(T, fld, start) ==
    LET V == {t.m[fld] : t \in T} \cup {start}
    IN CHOOSE v \in V : \A w \in V : v >= w

Quot(sum, count) == [num |-> sum, den |-> count]

\* memset(summary, 0, ...) with the date copied in
ZeroSummary(date) ==
    [date |-> copy_tm_date_only(date),
     max_temperature |-> 0, min_temperature |-> 0, avg_temperature |-> Quot(0, 1),
     avg_humidity |-> Quot(0, 1), avg_lux |-> Quot(0, 1),
     avg_soil_moisture |-> Quot(0, 1), max_soil_moisture |-> 0, min_soil_moisture |-> 0,
     max_soil_temperature |-> 0, min_soil_temperature |-> 0,
     avg_soil_temperature |-> Quot(0, 1),
     valid_samples |-> 0, complete |-> FALSE]

DAILY_COMPLETE_SAMPLES == 1200

\* calculate_daily_summary(): [ret, summary]
calculate_daily_summary(buf, date) ==
    LET T     == Tally(buf, {i \in ValidSlots(buf) : is_same_day(date, buf[i].timestamp)})
        count == CountOver(T)
    IN IF count > 0
       THEN [ret |-> ESP_OK,
             summary |->
               [date |-> copy_tm_date_only(date),
                max_temperature |-> RunMax(T, "temperature", -999),
                min_temperature |-> RunMin(T, "temperature", 999),
                avg_temperature |-> Quot(SumOver(T, "temperature"), count),
                avg_humidity |-> Quot(SumOver(T, "humidity"), count),
                avg_lux |-> Quot(SumOver(T, "lux"), count),
                avg_soil_moisture |-> Quot(SumOver(T, "soil_moisture"), count),
                max_soil_moisture |-> RunMax(T, "soil_moisture", -999999),
                min_soil_moisture |-> RunMin(T, "soil_moisture", 999999),
                max_soil_temperature |-> RunMax(T, "soil_temperature", -999),
                min_soil_temperature |-> RunMin(T, "soil_temperature", 999),
                avg_soil_temperature |-> Quot(SumOver(T, "soil_temperature"), count),
                valid_samples |-> count,
                complete |-> (count >= DAILY_COMPLETE_SAMPLES)]]
       ELSE [ret |-> ESP_ERR_NOT_FOUND, summary |-> ZeroSummary(date)]

\* the slot data_buffer_add_minute_data() writes for a composite sample
EntryOf(sensor_data) ==
    [timestamp |-> sensor_data.datetime,
     temperature |-> sensor_data.temperature,
     humidity |-> sensor_data.humidity,
     lux |-> sensor_data.lux,
     soil_moisture |-> sensor_data.soil_moisture,
     soil_temperature |-> sensor_data.soil_temperature,
     valid |-> TRUE]

\* the index data_buffer_add_minute_data() writes the new sample to
InsertIndex(buf, widx, sensor_data) == widx

\* data_buffer_add_minute_data(): the buffers and the write index after it
data_buffer_add_minute_data(buf, widx, daily, sensor_data) ==
    LET at   == InsertIndex(buf, widx, sensor_data)
        buf2 == [i \in DOMAIN buf \cup {at} |->
                   IF i = at THEN EntryOf(sensor_data) ELSE buf[i]]
        calc == calculate_daily_summary(buf2, sensor_data.datetime)
        di   == get_daily_index_by_date(sensor_data.datetime)
    IN [minute |-> buf2,
        widx   |-> (widx + 1) % DATA_BUFFER_MINUTES_PER_DAY,
        daily  |-> IF calc.ret = ESP_OK /\ di < DATA_BUFFER_DAYS_PER_MONTH
                   THEN [i \in DOMAIN daily \cup {di} |->
                           IF i = di THEN calc.summary ELSE daily[i]]
                   ELSE daily]

\* the read of the slot before the write index without the wrap to the last slot
LatestWithoutWrap(buf, widx) ==
    IF MinuteSlot(buf, widx - 1).valid
    THEN [ret |-> ESP_OK, data |-> MinuteSlot(buf, widx - 1)]
    ELSE [ret |-> ESP_ERR_NOT_FOUND, data |-> ZeroSlot]

\* data_buffer_get_latest_minute_data(): [ret, data]
data_buffer_get_latest_minute_data(buf, widx) ==
    LET latest_index == IF widx = 0 THEN DATA_BUFFER_MINUTES_PER_DAY - 1 ELSE widx - 1
    IN IF MinuteSlot(buf, latest_index).valid
       THEN [ret |-> ESP_OK, data |-> MinuteSlot(buf, latest_index)]
       ELSE [ret |-> ESP_ERR_NOT_FOUND, data |-> ZeroSlot]

\* data_buffer_get_minute_data(): the first valid slot of the same minute
data_buffer_get_minute_data(buf, timestamp) ==
    LET M == {i \in ValidSlots(buf) : is_same_minute(timestamp, buf[i].timestamp)}
    IN IF M # {}
       THEN [ret |-> ESP_OK, data |-> buf[CHOOSE i \in M : \A j \in M : i <= j]]
       ELSE [ret |-> ESP_ERR_NOT_FOUND, data |-> ZeroSlot]

\* data_buffer_cleanup_old_data(): the minute buffer after it
data_buffer_cleanup_old_data(buf, t) ==
    [i \in DOMAIN buf |->
       IF buf[i].valid /\ MkTime(buf[i].timestamp) < t - 24 * SECS_PER_HOUR
       THEN [buf[i] EXCEPT !.valid = FALSE] ELSE buf[i]]

\* the scan with a slot taken only when it is later than the cut-off time
RecentStrictlyAfterCutoff(buf, hours, t) ==
    LET h == IF hours > 24 THEN 24 ELSE hours
        E == {i \in ValidSlots(buf) : MkTime(buf[i].timestamp) > t - h * SECS_PER_HOUR}
    IN [ret |-> ESP_OK, count |-> Min(Cardinality(E), h * 60), picked |-> E]

\* data_buffer_get_recent_minute_data() at clock reading t: the slots copied
\* to the caller, in index order (picked), and their number (count)
data_buffer_get_recent_minute_data(buf, hours, t) ==
    LET h           == IF hours > 24 THEN 24 ELSE hours
        max_entries == h * 60
        cutoff_time == t - h * SECS_PER_HOUR
        E == {i \in ValidSlots(buf) : MkTime(buf[i].timestamp) >= cutoff_time}
        picked == IF Cardinality(E) <= max_entries THEN E
                  ELSE {i \in E : Cardinality({j \in E : j < i}) < max_entries}
    IN [ret |-> ESP_OK, count |-> Cardinality(picked), picked |-> picked]

\* g_daily_buffer[i]
DailySlot(daily, i) == IF i \in DOMAIN daily THEN daily[i] ELSE ZeroSummary(ZeroTm)

\* data_buffer_get_daily_summary(): the first complete slot of the date
data_buffer_get_daily_summary(daily, date) ==
    LET M == {i \in DOMAIN daily : daily[i].complete /\ is_same_day(date, daily[i].date)}
    IN IF M # {}
       THEN [ret |-> ESP_OK, summary |-> daily[CHOOSE i \in M : \A j \in M : i <= j]]
       ELSE [ret |-> ESP_ERR_NOT_FOUND, summary |-> ZeroSummary(ZeroTm)]

\* data_buffer_recalculate_daily_summary(): the daily buffer after it
data_buffer_recalculate_daily_summary(buf, daily, date) ==
    LET calc == calculate_daily_summary(buf, date)
        di   == get_daily_index_by_date(date)
    IN [ret   |-> calc.ret,
        daily |-> IF calc.ret = ESP_OK /\ di < DATA_BUFFER_DAYS_PER_MONTH
                  THEN [i \in DOMAIN daily \cup {di} |->
                          IF i = di THEN calc.summary ELSE daily[i]]
                  ELSE daily]

\* a comparison of the days of the month alone
CompareDayOfMonth(tm1, tm2) == tm1.tm_mday - tm2.tm_mday

\* data_buffer_compare_date(): negative, zero or positive
data_buffer_compare_date(tm1, tm2) ==
    IF tm1.tm_year # tm2.tm_year THEN tm1.tm_year - tm2.tm_year
    ELSE IF tm1.tm_mon # tm2.tm_mon THEN tm1.tm_mon - tm2.tm_mon
    ELSE tm1.tm_mday - tm2.tm_mday

\* the slots S of the daily buffer in the order the bubble sort leaves them:
\* by date, slots of one date in index order
RECURSIVE SortedByDate(_, _)
SortedByDate(daily, S) ==
    IF S = {} THEN <<>>
    ELSE LET first == CHOOSE i \in S : \A j \in S :
                        LET c == data_buffer_compare_date(daily[i].date, daily[j].date)
                        IN c < 0 \/ (c = 0 /\ i <= j)
         IN <<daily[first]>> \o SortedByDate(daily, S \ {first})

\* data_buffer_get_recent_daily_summaries(): the last `days` complete
\* summaries in date order
data_buffer_get_recent_daily_summaries(daily, days) ==
    IF days = 0
    THEN [ret |-> ESP_ERR_INVALID_ARG, count |-> 0, summaries |-> <<>>]
    ELSE LET d           == Min(days, DATA_BUFFER_DAYS_PER_MONTH)
             temp_buffer == SortedByDate(daily, {i \in DOMAIN daily : daily[i].complete})
             valid_count == Len(temp_buffer)
             start_index == IF valid_count > d THEN valid_count - d ELSE 0
         IN [ret |-> ESP_OK, count |-> valid_count - start_index,
             summaries |-> SubSeq(temp_buffer, start_index + 1, valid_count)]

(***************************************************************************)
(* Configuration values: plant profile, link credentials, timezone, and    *)
(* the persistent store (nvs_config.c).                                    *)
(***************************************************************************)
\* nvs_config_set_default_plant_profile(); thresholds in tenths
DefaultProfile ==
    [plant_name |-> "Succulent Plant",
     soil_dry_threshold |-> 10, soil_wet_threshold |-> 20,
     soil_dry_days_for_watering |-> 3,
     temp_high_limit |-> 300, temp_low_limit |-> 150,
     watering_threshold |-> 10]

\* a profile a client sets
Profile1 ==
    [plant_name |-> "Fern",
     soil_dry_threshold |-> 25000, soil_wet_threshold |-> 10000,
     soil_dry_days_for_watering |-> 2,
     temp_high_limit |-> 350, temp_low_limit |-> 100,
     watering_threshold |-> 2000]

\* "abcdef", "home", "JST-9", "KST-9"
Str_abcdef == <<97, 98, 99, 100, 101, 102>>
Str_home == <<104, 111, 109, 101>>
Str_JST == <<74, 83, 84, 45, 57>>
Str_KST == <<75, 83, 84, 45, 57>>

\* the stored link secrets the model sets: empty, shorter than, equal to and
\* longer than the three characters GetLinkConfig shows
Secrets == { SubSeq(Str_abcdef, 1, n) : n \in 0..4 }
             \cup { <<97, 98, 99, 98>>, Str_abcdef }

\* g_wifi_config after boot: wifi_manager_init() with no compiled SSID
BootWifiConfig == [ssid |-> ZeroBuf(WIFI_SSID_FIELD),
                   password |-> ZeroBuf(WIFI_PASSWORD_FIELD)]

\* the persistent namespace: each key holds no value (<<>>) or one (<<v>>)
FreshNvs == [profile |-> <<>>, wifi |-> <<>>, timezone |-> <<>>]

\* outcomes of one nvs_open / nvs_set_blob / nvs_commit sequence: the call
\* that fails, and for a failed commit whether the blob reached the flash
NvsOutcomes == {"ok", "open", "set", "commit_old", "commit_new"}

\* nvs_config_save_plant_profile / _wifi_config / _timezone: [err, nvs]
nvs_config_save(store, key, value, outcome) ==
    [err |-> IF outcome = "ok" THEN ESP_OK ELSE ESP_FAIL,
     nvs |-> IF outcome \in {"ok", "commit_new"}
             THEN [store EXCEPT ![key] = <<value>>] ELSE store]

\* a blob under a key whose size is not the size of the compiled structure
\* (written by a build with another layout)
ForeignBlob(n) == [blob_size |-> n]
IsForeign(v) == "blob_size" \in DOMAIN v
BlobSize(v, size) == IF IsForeign(v) THEN v.blob_size ELSE size

\* nvs_open(NVS_READONLY) finds no namespace while nothing was ever written
NamespaceMissing(store) ==
    store.profile = <<>> /\ store.wifi = <<>> /\ store.timezone = <<>>

\* outcomes of one nvs_open / nvs_get sequence: no fault, or the call that
\* fails with an error other than "not found" (a failed get leaves the size
\* it was given)
LoadOutcomes == {"ok", "open", "get"}

\* nvs_config_load_plant_profile(): [err, profile, nvs, writes], writes the
\* number of nvs_set_blob calls made; wr is the outcome of the save of the
\* defaults, where one is made
nvs_config_load_plant_profile(store, rd, wr) ==
    LET saved     == nvs_config_save(store, "profile", DefaultProfile, wr)
        recovered == [err |-> ESP_OK, profile |-> DefaultProfile, nvs |-> saved.nvs,
                      writes |-> IF wr = "open" THEN 0 ELSE 1]
        defaulted == [err |-> ESP_OK, profile |-> DefaultProfile, nvs |-> store,
                      writes |-> 0]
    IN IF rd = "open" THEN defaulted
       ELSE IF NamespaceMissing(store) THEN recovered
       ELSE IF rd = "get" THEN defaulted
       ELSE IF store.profile = <<>> THEN recovered
       ELSE IF BlobSize(store.profile[1], SIZEOF_PLANT_PROFILE) # SIZEOF_PLANT_PROFILE
       THEN recovered
       ELSE [err |-> ESP_OK, profile |-> store.profile[1], nvs |-> store, writes |-> 0]

\* the load of the credentials done the way the profile is loaded: a missing
\* or foreign blob is replaced by the boot credentials
LoadWifiWithDefaults(store, rd) ==
    IF store.wifi = <<>> \/ IsForeign(store.wifi[1])
    THEN [err |-> ESP_OK, wifi_config |-> <<BootWifiConfig>>,
          nvs |-> [store EXCEPT !.wifi = <<BootWifiConfig>>]]
    ELSE [err |-> ESP_OK, wifi_config |-> store.wifi, nvs |-> store]

\* nvs_config_load_wifi_config(): [err, wifi_config, nvs]; wifi_config is <<>>
\* when nothing was handed back
nvs_config_load_wifi_config(store, rd) ==
    LET failed(e) == [err |-> e, wifi_config |-> <<>>, nvs |-> store]
    IN IF rd = "open" THEN failed(ESP_FAIL)
       ELSE IF NamespaceMissing(store) THEN failed(ESP_ERR_NVS_NOT_FOUND)
       ELSE IF rd = "get" THEN failed(ESP_FAIL)
       ELSE IF store.wifi = <<>> THEN failed(ESP_ERR_NVS_NOT_FOUND)
       ELSE IF IsForeign(store.wifi[1]) THEN failed(ESP_ERR_INVALID_SIZE)
       ELSE [err |-> ESP_OK, wifi_config |-> store.wifi, nvs |-> store]

\* nvs_config_save_timezone(): nvs_set_str stores the string up to its NUL
nvs_config_save_timezone(store, timezone, outcome) ==
    nvs_config_save(store, "timezone", CStr(timezone), outcome)

\* the string read back cut to the first 31 characters
GetStrCut(str, max_len) ==
    [err |-> ESP_OK, out |-> SubSeq(str, 1, Min(Len(str), 31)) \o <<NUL>>]

\* nvs_get_str(): the string and its NUL, when the buffer holds them
nvs_get_str(str, max_len) ==
    IF Len(str) + 1 > max_len
    THEN [err |-> ESP_ERR_NVS_INVALID_LENGTH, out |-> <<>>]
    ELSE [err |-> ESP_OK, out |-> str \o <<NUL>>]

\* nvs_config_load_timezone(): [err, timezone, nvs]
nvs_config_load_timezone(store, max_len, rd) ==
    LET failed(e) == [err |-> e, timezone |-> <<>>, nvs |-> store]
    IN IF rd = "open" THEN failed(ESP_FAIL)
       ELSE IF NamespaceMissing(store) THEN failed(ESP_ERR_NVS_NOT_FOUND)
       ELSE IF store.timezone = <<>> THEN failed(ESP_ERR_NVS_NOT_FOUND)
       ELSE IF rd = "get" THEN failed(ESP_FAIL)
       ELSE LET got == nvs_get_str(store.timezone[1], max_len)
            IN [err |-> got.err, timezone |-> got.out, nvs |-> store]

\* time_sync_manager_init(): g_time_manager.timezone after boot
BootTimezone(store) ==
    LET src == IF store.timezone = <<>> THEN Str_JST ELSE store.timezone[1]
    IN Terminate(StrNCpy(ZeroBuf(MAX_TIMEZONE_LENGTH), src, MAX_TIMEZONE_LENGTH - 1))

(***************************************************************************)
(* Program state.                                                          *)
(*   now                      the system clock, time(NULL)                 *)
(*   ticks                    timer periods elapsed (bounds the sampling)  *)
(*   sensor_notify, sensor_pc the notification value of the sensor task    *)
(*                            and its position (ulTaskNotifyTake or        *)
(*                            vTaskDelay)                                  *)
(*   inflight                 command frames whose callback has passed     *)
(*                            validation and has not returned yet          *)
(*   analysis                 the position of the analysis task in the     *)
(*                            decision engine, the sample it classifies    *)
(*                            and the profile fields it has read so far    *)
(*   plant_status             the status the analysis task decided last    *)
(*                            (the one the indicator shows), none at boot  *)
(*   ev                       the last step taken: its inputs, its return  *)
(*                            code and every frame it handed to the radio  *)
(* g_last_sequence_num is only ever written and is left out.               *)
(***************************************************************************)
VARIABLES now, ticks, sensor_notify, sensor_pc,
          g_minute_buffer, g_minute_write_index, g_daily_buffer,
          g_plant_profile, g_wifi_config, g_timezone, nvs,
          g_conn_handle, g_is_subscribed_sensor, g_is_subscribed_response,
          g_is_subscribed_data_transfer,
          g_command_processing, g_total_sensor_readings,
          inflight, ev,
          analysis, g_last_plant_condition, plant_status

vars == <<now, ticks, sensor_notify, sensor_pc,
          g_minute_buffer, g_minute_write_index, g_daily_buffer,
          g_plant_profile, g_wifi_config, g_timezone, nvs,
          g_conn_handle, g_is_subscribed_sensor, g_is_subscribed_response,
          g_is_subscribed_data_transfer,
          g_command_processing, g_total_sensor_readings,
          inflight, ev,
          analysis, g_last_plant_condition, plant_status>>

storeVars == <<g_minute_buffer, g_minute_write_index, g_daily_buffer>>
configVars == <<g_plant_profile, g_wifi_config, g_timezone, nvs>>
linkVars == <<g_conn_handle, g_is_subscribed_sensor, g_is_subscribed_response,
              g_is_subscribed_data_transfer>>
taskVars == <<ticks, sensor_notify, sensor_pc>>
analysisVars == <<analysis, g_last_plant_condition, plant_status>>

\* status_analysis_task() in its vTaskDelay(), nothing read yet
AnalysisIdle == [pc |-> "sleep", latest |-> <<>>, seen |-> <<>>, began |-> 0]

\* status of status_analysis_task() before its first round: nothing decided
NoStatusYet == <<>>

\* the connection handles the stack gives the one central
ConnHandles == {1}

(***************************************************************************)
(* Frames.  A command frame is the 4-byte header and its payload; om_len   *)
(* is the length of the write as received (OS_MBUF_PKTLEN).  A response    *)
(* frame is the 5-byte header and its payload.                             *)
(***************************************************************************)
NoData == [kind |-> "none"]

Frame(id, seq, len, data) ==
    [om_len |-> SIZEOF_COMMAND_PACKET + len, command_id |-> id,
     sequence_num |-> seq, data_length |-> len, data |-> data]

\* a write of n bytes whose header declares len payload bytes
RawFrame(n, id, seq, len) ==
    [om_len |-> n, command_id |-> id, sequence_num |-> seq,
     data_length |-> len, data |-> NoData]

\* the header of a frame as the step record keeps it
Header(f) == [om_len |-> f.om_len, command_id |-> f.command_id,
              sequence_num |-> f.sequence_num, data_length |-> f.data_length]

Response(id, status, seq, len, data) ==
    [response_id |-> id, status_code |-> status, sequence_num |-> seq,
     data_length |-> len, data |-> data]

\* the step record
Ev(op, busy, rc, cmd, hstatus, overlapped, tx, value) ==
    [op |-> op, busy |-> busy, rc |-> rc, cmd |-> cmd, hstatus |-> hstatus,
     overlapped |-> overlapped, tx |-> tx, value |-> value]

NoCmd == [om_len |-> 0, command_id |-> 0, sequence_num |-> 0, data_length |-> 0]
\* no status: the step ran no handler
NoStatus == RESP_STATUS_SUCCESS - 1
NoEv(op) == Ev(op, FALSE, 0, NoCmd, NoStatus, FALSE, <<>>, <<>>)

(***************************************************************************)
(* Outcomes of the calls a handler makes into the platform.                *)
(***************************************************************************)
Env(n, a, w, p) ==
    [nvs |-> n, api_ok |-> a, wifi_connected |-> w, pressed |-> p]

\* the outcomes that matter to the command: those of the calls it makes
EnvsFor(id, Outcomes) ==
    { Env(n, a, w, p) :
        n \in (IF id \in {CMD_SET_PLANT_PROFILE, CMD_SAVE_PLANT_PROFILE,
                          CMD_SAVE_WIFI_CONFIG, CMD_SAVE_TIMEZONE}
               THEN Outcomes ELSE {"ok"}),
        a \in (IF id \in {CMD_SET_WIFI_CONFIG, CMD_WIFI_CONNECT, CMD_SYNC_TIME,
                          CMD_WIFI_DISCONNECT}
               THEN BOOLEAN ELSE {TRUE}),
        w \in (IF id \in {CMD_WIFI_CONNECT, CMD_GET_SYSTEM_STATUS}
               THEN BOOLEAN ELSE {FALSE}),
        p \in (IF id = CMD_GET_SWITCH_STATUS THEN BOOLEAN ELSE {FALSE}) }

\* what a handler may change
Cur == [readings |-> g_total_sensor_readings, profile |-> g_plant_profile,
        wifi |-> g_wifi_config, tz |-> g_timezone, nvs |-> nvs]

\* a handler's result: the response it built, its return code, the state
Handled(resp, err, st) == [resp |-> resp, err |-> err, st |-> st]

(***************************************************************************)
(* Command handlers (ble_manager.h).  Each takes the frame fields its C    *)
(* signature takes and the outcomes of the platform calls it makes.        *)
(***************************************************************************)
\* the composite sample a minute slot is copied into for the response
SoilDataOf(minute_data) ==
    [kind |-> "soil_data", datetime |-> minute_data.timestamp,
     lux |-> minute_data.lux, temperature |-> minute_data.temperature,
     humidity |-> minute_data.humidity,
     soil_moisture |-> minute_data.soil_moisture,
     soil_temperature |-> minute_data.soil_temperature]

\* handle_get_sensor_data() and handle_get_sensor_data_v2(): they differ in
\* the command id they answer with
handle_get_sensor_data(id, sequence_num) ==
    LET got == data_buffer_get_latest_minute_data(g_minute_buffer, g_minute_write_index)
    IN IF got.ret # ESP_OK
       THEN Handled(Response(id, RESP_STATUS_ERROR, sequence_num, 0, NoData),
                    got.ret, Cur)
       ELSE Handled(Response(id, RESP_STATUS_SUCCESS, sequence_num,
                             SIZEOF_SOIL_DATA, SoilDataOf(got.data)),
                    ESP_OK, [Cur EXCEPT !.readings = @ + 1])

handle_get_system_status(sequence_num, env) ==
    Handled(Response(CMD_GET_SYSTEM_STATUS, RESP_STATUS_SUCCESS, sequence_num,
                     SIZEOF_SYSTEM_STATUS,
                     [kind |-> "system_status", current_time |-> now,
                      wifi_connected |-> IF env.wifi_connected THEN 1 ELSE 0,
                      ble_connected |-> IF g_conn_handle # BLE_HS_CONN_HANDLE_NONE
                                        THEN 1 ELSE 0]),
            ESP_OK, Cur)

handle_set_plant_profile(data, data_length, sequence_num, env) ==
    IF data_length # SIZEOF_PLANT_PROFILE
    THEN Handled(Response(CMD_SET_PLANT_PROFILE, RESP_STATUS_INVALID_PARAMETER,
                          sequence_num, 0, NoData), ESP_OK, Cur)
    ELSE LET saved == nvs_config_save(nvs, "profile", data.profile, env.nvs)
         IN IF saved.err = ESP_OK
            THEN Handled(Response(CMD_SET_PLANT_PROFILE, RESP_STATUS_SUCCESS,
                                  sequence_num, 0, NoData), ESP_OK,
                         [Cur EXCEPT !.nvs = saved.nvs, !.profile = data.profile])
            ELSE Handled(Response(CMD_SET_PLANT_PROFILE, RESP_STATUS_ERROR,
                                  sequence_num, 0, NoData), ESP_OK,
                         [Cur EXCEPT !.nvs = saved.nvs])

handle_get_plant_profile(sequence_num) ==
    Handled(Response(CMD_GET_PLANT_PROFILE, RESP_STATUS_SUCCESS, sequence_num,
                     SIZEOF_PLANT_PROFILE,
                     [kind |-> "plant_profile", profile |-> g_plant_profile]),
            ESP_OK, Cur)

handle_set_wifi_config(data, data_length, sequence_num, env) ==
    IF data_length # SIZEOF_WIFI_CONFIG_DATA
    THEN Handled(Response(CMD_SET_WIFI_CONFIG, RESP_STATUS_INVALID_PARAMETER,
                          sequence_num, 0, NoData), ESP_OK, Cur)
    ELSE LET ssid     == Terminate(data.ssid)
             password == Terminate(data.password)
             config   == [ssid |-> StrNCpy(ZeroBuf(WIFI_SSID_FIELD), CStr(ssid),
                                           WIFI_SSID_FIELD - 1),
                          password |-> StrNCpy(ZeroBuf(WIFI_PASSWORD_FIELD),
                                               CStr(password),
                                               WIFI_PASSWORD_FIELD - 1)]
         IN Handled(Response(CMD_SET_WIFI_CONFIG,
                             IF env.api_ok THEN RESP_STATUS_SUCCESS
                                           ELSE RESP_STATUS_ERROR,
                             sequence_num, 0, NoData),
                    ESP_OK, [Cur EXCEPT !.wifi = config])

\* the characters of the stored secret that the masked field shows
MASK_VISIBLE == 3

\* the masked field built from the whole secret
MaskedPasswordWhole(password) ==
    IF StrLen(password) > 0
    THEN StrCat(StrNCpy(ZeroBuf(WIFI_PASSWORD_FIELD), CStr(password),
                        WIFI_PASSWORD_FIELD - 4),
                <<CH_STAR, CH_STAR, CH_STAR>>)
    ELSE ZeroBuf(WIFI_PASSWORD_FIELD)

\* the password field of the GetLinkConfig payload
MaskedPassword(password) ==
    IF StrLen(password) > 0
    THEN StrCat(StrNCpy(ZeroBuf(WIFI_PASSWORD_FIELD), CStr(password), MASK_VISIBLE),
                <<CH_STAR, CH_STAR, CH_STAR>>)
    ELSE ZeroBuf(WIFI_PASSWORD_FIELD)

handle_get_wifi_config(sequence_num) ==
    Handled(Response(CMD_GET_WIFI_CONFIG, RESP_STATUS_SUCCESS, sequence_num,
                     SIZEOF_WIFI_CONFIG_DATA,
                     [kind |-> "wifi_config",
                      ssid |-> StrNCpy(ZeroBuf(WIFI_SSID_FIELD),
                                       CStr(g_wifi_config.ssid), WIFI_SSID_FIELD - 1),
                      password |-> MaskedPassword(g_wifi_config.password)]),
            ESP_OK, Cur)

\* the handlers that make one platform call and report whether it succeeded:
\* handle_wifi_connect (which also succeeds without the call when the
\* station is already connected to the configured SSID), handle_sync_time,
\* handle_wifi_disconnect
handle_wifi_connect(sequence_num, env) ==
    Handled(Response(CMD_WIFI_CONNECT,
                     IF env.wifi_connected \/ env.api_ok
                     THEN RESP_STATUS_SUCCESS ELSE RESP_STATUS_ERROR,
                     sequence_num, 0, NoData), ESP_OK, Cur)

handle_sync_time(sequence_num, env) ==
    Handled(Response(CMD_SYNC_TIME,
                     IF env.api_ok THEN RESP_STATUS_SUCCESS ELSE RESP_STATUS_ERROR,
                     sequence_num, 0, NoData), ESP_OK, Cur)

handle_wifi_disconnect(sequence_num, env) ==
    Handled(Response(CMD_WIFI_DISCONNECT,
                     IF env.api_ok THEN RESP_STATUS_SUCCESS ELSE RESP_STATUS_ERROR,
                     sequence_num, 0, NoData), ESP_OK, Cur)

handle_get_timezone(sequence_num) ==
    LET tz_len == StrLen(g_timezone)
    IN Handled(Response(CMD_GET_TIMEZONE, RESP_STATUS_SUCCESS, sequence_num,
                        tz_len + 1,
                        [kind |-> "timezone",
                         bytes |-> SubSeq(g_timezone, 1, tz_len) \o <<NUL>>]),
               ESP_OK, Cur)

\* handle_save_wifi_config / handle_save_plant_profile / handle_save_timezone
handle_save(id, key, value, sequence_num, env) ==
    LET saved == nvs_config_save(nvs, key, value, env.nvs)
    IN Handled(Response(id,
                        IF saved.err = ESP_OK THEN RESP_STATUS_SUCCESS
                                              ELSE RESP_STATUS_ERROR,
                        sequence_num, 0, NoData),
               ESP_OK, [Cur EXCEPT !.nvs = saved.nvs])

\* time_sync_manager_set_timezone(): g_time_manager.timezone after it
time_sync_manager_set_timezone(timezone_str) ==
    Terminate(StrNCpy(g_timezone, timezone_str, MAX_TIMEZONE_LENGTH - 1))

handle_set_timezone(data, data_length, sequence_num) ==
    IF data_length = 0 \/ data_length > 64
    THEN Handled(Response(CMD_SET_TIMEZONE, RESP_STATUS_INVALID_PARAMETER,
                          sequence_num, 0, NoData), ESP_OK, Cur)
    ELSE LET timezone == CStr(SubSeq(data.bytes, 1, data_length) \o <<NUL>>)
         IN Handled(Response(CMD_SET_TIMEZONE, RESP_STATUS_SUCCESS,
                             sequence_num, 0, NoData),
                    ESP_OK,
                    [Cur EXCEPT !.tz = time_sync_manager_set_timezone(timezone)])

handle_get_device_info(sequence_num) ==
    Handled(Response(CMD_GET_DEVICE_INFO, RESP_STATUS_SUCCESS, sequence_num,
                     SIZEOF_DEVICE_INFO,
                     [kind |-> "device_info",
                      total_sensor_readings |-> g_total_sensor_readings]),
            ESP_OK, Cur)

\* find_data_by_time()
find_data_by_time(target_time) ==
    LET got == data_buffer_get_minute_data(g_minute_buffer, target_time)
    IN IF got.ret = ESP_OK THEN got ELSE [got EXCEPT !.ret = ESP_ERR_NOT_FOUND]

handle_get_time_data(data, data_length, sequence_num) ==
    IF data_length # SIZEOF_TIME_DATA_REQUEST
    THEN Handled(Response(CMD_GET_TIME_DATA, RESP_STATUS_INVALID_PARAMETER,
                          sequence_num, 0, NoData), ESP_FAIL, Cur)
    ELSE LET found == find_data_by_time(data.requested_time)
         IN IF found.ret = ESP_OK
            THEN Handled(Response(CMD_GET_TIME_DATA, RESP_STATUS_SUCCESS,
                                  sequence_num, SIZEOF_TIME_DATA_RESPONSE,
                                  [kind |-> "time_data", entry |-> found.data]),
                         ESP_OK, Cur)
            ELSE Handled(Response(CMD_GET_TIME_DATA, RESP_STATUS_ERROR,
                                  sequence_num, 0, NoData), ESP_OK, Cur)

(***************************************************************************)
(* The command engine.                                                     *)
(***************************************************************************)
\* process_ble_command(): the handler's result; for SYSTEM_RESET the frame
\* is sent from inside and the call does not return (restart)
process_ble_command(f, env) ==
    LET id  == f.command_id
        seq == f.sequence_num
    IN CASE id \in {CMD_GET_SENSOR_DATA, CMD_GET_SENSOR_DATA_V2} ->
                handle_get_sensor_data(id, seq)
         [] id = CMD_GET_SYSTEM_STATUS -> handle_get_system_status(seq, env)
         [] id = CMD_SET_PLANT_PROFILE ->
                handle_set_plant_profile(f.data, f.data_length, seq, env)
         [] id = CMD_GET_PLANT_PROFILE -> handle_get_plant_profile(seq)
         [] id = CMD_SYSTEM_RESET ->
                Handled(Response(CMD_SYSTEM_RESET, RESP_STATUS_SUCCESS, seq, 0, NoData),
                        ESP_OK, Cur)
         [] id = CMD_GET_DEVICE_INFO -> handle_get_device_info(seq)
         [] id = CMD_GET_TIME_DATA ->
                handle_get_time_data(f.data, f.data_length, seq)
         [] id = CMD_GET_SWITCH_STATUS ->
                Handled(Response(CMD_GET_SWITCH_STATUS, RESP_STATUS_SUCCESS, seq, 1,
                                 [kind |-> "switch",
                                  pressed |-> IF env.pressed THEN 1 ELSE 0]),
                        ESP_OK, Cur)
         [] id = CMD_SET_WIFI_CONFIG ->
                handle_set_wifi_config(f.data, f.data_length, seq, env)
         [] id = CMD_GET_WIFI_CONFIG -> handle_get_wifi_config(seq)
         [] id = CMD_WIFI_CONNECT -> handle_wifi_connect(seq, env)
         [] id = CMD_GET_TIMEZONE -> handle_get_timezone(seq)
         [] id = CMD_SYNC_TIME -> handle_sync_time(seq, env)
         [] id = CMD_WIFI_DISCONNECT -> handle_wifi_disconnect(seq, env)
         [] id = CMD_SAVE_WIFI_CONFIG ->
                handle_save(id, "wifi", g_wifi_config, seq, env)
         [] id = CMD_SAVE_PLANT_PROFILE ->
                handle_save(id, "profile", g_plant_profile, seq, env)
         [] id = CMD_SET_TIMEZONE ->
                handle_set_timezone(f.data, f.data_length, seq)
         [] id = CMD_SAVE_TIMEZONE ->
                handle_save(id, "timezone", CStr(g_timezone), seq, env)
         [] OTHER ->
                Handled(Response(id, RESP_STATUS_INVALID_COMMAND, seq, 0, NoData),
                        ESP_FAIL, Cur)

\* the error frame built without the sequence number of the command
DispatchResponseNoEcho(f, r) ==
    IF r.err # ESP_OK
    THEN Response(f.command_id, RESP_STATUS_ERROR, 0, 0, NoData)
    ELSE r.resp

\* the frame the command callback sends for a handler result: the handler's
\* own, or the 5-byte error frame when the handler returned a failure
DispatchResponse(f, r) ==
    IF r.err # ESP_OK
    THEN Response(f.command_id, RESP_STATUS_ERROR, f.sequence_num, 0, NoData)
    ELSE r.resp

\* send_response_notification(): whether the frame is handed to the stack
\* as a notification (the stack is taken to accept it; the callback ignores
\* the return value)
send_response_notification ==
    /\ g_conn_handle # BLE_HS_CONN_HANDLE_NONE
    /\ g_is_subscribed_response

\* one frame passed to send_response_notification()
Sent(resp) == [resp |-> resp, delivered |-> send_response_notification]

\* the command callback without its busy check
BusyDropNever == FALSE

\* the first check of the command callback: a write that arrives while a
\* command is being processed is ignored
BusyDrop == g_command_processing

\* a callback that releases the busy flag only after a handler that succeeded
BusyKeptOnFailure(err) == err # ESP_OK

\* the busy flag as the command callback leaves it: cleared after the send,
\* whatever process_ble_command() returned
BusyAfterDispatch(err) == FALSE

\* frames the callback may hold at once (reached only if the busy check fails)
MaxInflight == 2

(***************************************************************************)
(* Boot: app_main() up to the start of the tasks.  The RAM state is        *)
(* initialised, the profile and the timezone are loaded from the           *)
(* persistent store, the sensor task is given its first notification.      *)
(***************************************************************************)
EmptyBuffer == [i \in {} |-> ZeroSlot]

Boot(store) ==
    LET loaded == nvs_config_load_plant_profile(store, "ok", "ok")
    IN /\ g_minute_buffer' = EmptyBuffer
       /\ g_minute_write_index' = 0
       /\ g_daily_buffer' = EmptyBuffer
       /\ g_plant_profile' = loaded.profile
       /\ nvs' = loaded.nvs
       /\ g_wifi_config' = BootWifiConfig
       /\ g_timezone' = BootTimezone(store)
       /\ g_conn_handle' = BLE_HS_CONN_HANDLE_NONE
       /\ g_is_subscribed_sensor' = FALSE
       /\ g_is_subscribed_response' = FALSE
       /\ g_is_subscribed_data_transfer' = FALSE
       /\ g_command_processing' = FALSE
       /\ g_total_sensor_readings' = 0
       /\ sensor_notify' = 1
       /\ sensor_pc' = "wait"
       /\ inflight' = <<>>
       /\ analysis' = AnalysisIdle
       /\ g_last_plant_condition' = "SOIL_WET"
       /\ plant_status' = NoStatusYet

\* the ring store after data_buffer_init()
EmptyStore == [minute |-> EmptyBuffer, widx |-> 0, daily |-> EmptyBuffer]

\* the device at clock reading t with the flash contents flash, the ring
\* store store and notify pending notifications of the sensor task; wr is
\* the outcome of the save of the default profile, where the boot makes one;
\* last is the condition the engine keeps and shown the status decided last
RunningState(t, flash, wr, store, notify, last, shown) ==
    /\ now = t
    /\ ticks = 0
    /\ g_minute_buffer = store.minute
    /\ g_minute_write_index = store.widx
    /\ g_daily_buffer = store.daily
    /\ g_plant_profile = nvs_config_load_plant_profile(flash, "ok", wr).profile
    /\ nvs = nvs_config_load_plant_profile(flash, "ok", wr).nvs
    /\ g_wifi_config = BootWifiConfig
    /\ g_timezone = BootTimezone(flash)
    /\ g_conn_handle = BLE_HS_CONN_HANDLE_NONE
    /\ g_is_subscribed_sensor = FALSE
    /\ g_is_subscribed_response = FALSE
    /\ g_is_subscribed_data_transfer = FALSE
    /\ g_command_processing = FALSE
    /\ g_total_sensor_readings = 0
    /\ sensor_notify = notify
    /\ sensor_pc = "wait"
    /\ inflight = <<>>
    /\ analysis = AnalysisIdle
    /\ g_last_plant_condition = last
    /\ plant_status = shown
    /\ ev = NoEv("boot")

\* the same before the analysis task has finished its first round
StartState(t, flash, wr, store, notify) ==
    RunningState(t, flash, wr, store, notify, "SOIL_WET", NoStatusYet)

\* the state app_main() leaves, the clock reading t
BootState(t) == StartState(t, FreshNvs, "ok", EmptyStore, 1)

\* first power-up: the clock starts at the epoch
Init == BootState(0)

(***************************************************************************)
(* Actions of the command channel (gatt_svr_access_command_cb).  The       *)
(* callback is taken in two steps, so that a second write can arrive       *)
(* between them: CommandWrite is the callback up to the point where the    *)
(* busy flag is set, CommandComplete is the dispatch, the send and the     *)
(* release of the flag.  Connection events are delivered between commands. *)
(* SystemReset sends its response and then waits before it restarts the    *)
(* device: CommandComplete takes it to the wait (pc "delay" of the frame   *)
(* in flight), SystemRestart is the restart.                               *)
(***************************************************************************)
CommandWrite(F) ==
    \E f \in F :
      /\ g_conn_handle # BLE_HS_CONN_HANDLE_NONE
      /\ Len(inflight) < MaxInflight
      /\ f.command_id \in {CMD_GET_SENSOR_DATA, CMD_GET_SENSOR_DATA_V2}
            => g_total_sensor_readings < MaxReadCount
      /\ IF BusyDrop
         THEN /\ ev' = Ev("write", TRUE, 0, NoCmd, NoStatus, FALSE, <<>>, <<>>)
              /\ inflight' = [i \in DOMAIN inflight |->
                                [inflight[i] EXCEPT !.overlapped = TRUE]]
              /\ UNCHANGED g_command_processing
         ELSE IF f.om_len < SIZEOF_COMMAND_PACKET
                 \/ f.om_len # SIZEOF_COMMAND_PACKET + f.data_length
         THEN /\ ev' = Ev("write", FALSE, BLE_ATT_ERR_INVALID_ATTR_VALUE_LEN,
                          Header(f), NoStatus, FALSE, <<>>, <<>>)
              /\ UNCHANGED <<inflight, g_command_processing>>
         ELSE /\ g_command_processing' = TRUE
              /\ inflight' = Append([i \in DOMAIN inflight |->
                                       [inflight[i] EXCEPT !.overlapped = TRUE]],
                                    [frame |-> f, overlapped |-> FALSE,
                                     pc |-> "dispatch"])
              /\ ev' = Ev("write", FALSE, 0, Header(f), NoStatus, FALSE, <<>>, <<>>)
      /\ UNCHANGED <<analysisVars, now, taskVars, storeVars, configVars, linkVars,
                     g_total_sensor_readings>>

\* a restart that returns to the callback, which sends its frame as well
ResetSendsTwice(f, r) == <<Sent(r.resp), Sent(DispatchResponse(f, r))>>

\* the frames passed to send_response_notification() for SystemReset: the
\* one process_ble_command() sends itself; esp_restart() does not return, so
\* the send of the callback is not reached
ResetSends(f, r) == <<Sent(r.resp)>>

CommandComplete(Outcomes) ==
    /\ inflight # <<>>
    /\ Head(inflight).pc = "dispatch"
    /\ LET f == Head(inflight).frame
       IN \E env \in EnvsFor(f.command_id, Outcomes) :
            LET r == process_ble_command(f, env)
            IN IF f.command_id = CMD_SYSTEM_RESET
               THEN /\ ev' = Ev("complete", FALSE, 0, Header(f), r.resp.status_code,
                                Head(inflight).overlapped, ResetSends(f, r), <<>>)
                    /\ inflight' = <<[Head(inflight) EXCEPT !.pc = "delay"]>>
                                      \o Tail(inflight)
                    /\ UNCHANGED <<analysisVars, now, taskVars, storeVars, configVars,
                                   linkVars, g_command_processing,
                                   g_total_sensor_readings>>
               ELSE /\ ev' = Ev("complete", FALSE, 0, Header(f), r.resp.status_code,
                                Head(inflight).overlapped,
                                <<Sent(DispatchResponse(f, r))>>, <<>>)
                    /\ g_total_sensor_readings' = r.st.readings
                    /\ g_plant_profile' = r.st.profile
                    /\ g_wifi_config' = r.st.wifi
                    /\ g_timezone' = r.st.tz
                    /\ nvs' = r.st.nvs
                    /\ g_command_processing' = BusyAfterDispatch(r.err)
                    /\ inflight' = Tail(inflight)
                    /\ UNCHANGED <<analysisVars, now, taskVars, storeVars, linkVars>>

\* process_ble_command(), SystemReset: vTaskDelay(500 ms) returns and
\* esp_restart() restarts the device
SystemRestart ==
    /\ inflight # <<>>
    /\ Head(inflight).pc = "delay"
    /\ Boot(nvs)
    /\ ev' = NoEv("restart")
    /\ UNCHANGED <<now, ticks>>

\* gatt_svr_access_response_cb(): the value a read of the response
\* characteristic returns.  The callback appends nothing to the reply, and
\* the response frame of a command lives in a local buffer of the command
\* callback, so the value is empty whatever was sent before.
ResponseReadValue == <<>>

\* gatt_svr_access_response_cb(): a read returns the value above, a write is
\* refused
ResponseAccess ==
    \E op \in {"read", "write"} :
      /\ g_conn_handle # BLE_HS_CONN_HANDLE_NONE
      /\ inflight = <<>>
      /\ ev' = Ev(IF op = "read" THEN "response_read" ELSE "response_write", FALSE,
                  IF op = "write" THEN BLE_ATT_ERR_WRITE_NOT_PERMITTED ELSE 0,
                  NoCmd, NoStatus, FALSE, <<>>, ResponseReadValue)
      /\ UNCHANGED <<analysisVars, now, taskVars, storeVars, configVars, linkVars,
                     g_command_processing, g_total_sensor_readings, inflight>>

(***************************************************************************)
(* Connection events (gap_event_handler).                                  *)
(***************************************************************************)
Connect ==
    /\ g_conn_handle = BLE_HS_CONN_HANDLE_NONE
    /\ inflight = <<>>
    /\ g_conn_handle' \in ConnHandles
    /\ ev' = NoEv("connect")
    /\ UNCHANGED <<analysisVars, now, taskVars, storeVars, configVars, g_is_subscribed_sensor,
                   g_is_subscribed_response, g_is_subscribed_data_transfer,
                   g_command_processing, g_total_sensor_readings, inflight>>

Disconnect ==
    /\ g_conn_handle # BLE_HS_CONN_HANDLE_NONE
    /\ inflight = <<>>
    /\ g_conn_handle' = BLE_HS_CONN_HANDLE_NONE
    /\ g_is_subscribed_sensor' = FALSE
    /\ g_is_subscribed_response' = FALSE
    /\ g_is_subscribed_data_transfer' = FALSE
    /\ g_command_processing' = FALSE
    /\ ev' = NoEv("disconnect")
    /\ UNCHANGED <<analysisVars, now, taskVars, storeVars, configVars,
                   g_total_sensor_readings, inflight>>

Subscribe(Attrs) ==
    \E attr \in Attrs, cur_notify \in BOOLEAN :
      /\ g_conn_handle # BLE_HS_CONN_HANDLE_NONE
      /\ inflight = <<>>
      /\ g_is_subscribed_sensor' =
            IF attr = "sensor_data" THEN cur_notify ELSE g_is_subscribed_sensor
      /\ g_is_subscribed_response' =
            IF attr = "response" THEN cur_notify ELSE g_is_subscribed_response
      /\ g_is_subscribed_data_transfer' =
            IF attr = "data_transfer" THEN cur_notify
            ELSE g_is_subscribed_data_transfer
      /\ ev' = NoEv("subscribe")
      /\ UNCHANGED <<analysisVars, now, taskVars, storeVars, configVars, g_conn_handle,
                     g_command_processing, g_total_sensor_readings, inflight>>

(***************************************************************************)
(* Sampling (main.c): the periodic timer, the sensor task, the clock.      *)
(***************************************************************************)
\* notify_timer_callback(): one period passes and the task is notified
notify_timer_callback ==
    /\ ticks' = ticks + 1
    /\ now' = now + SENSOR_READ_INTERVAL_MS \div 1000
    /\ sensor_notify' = sensor_notify + 1
    /\ ev' = NoEv("timer")
    /\ UNCHANGED <<analysisVars, sensor_pc, storeVars, configVars, linkVars,
                   g_command_processing, g_total_sensor_readings, inflight>>

TimerFire ==
    /\ ticks < MaxTicks
    /\ notify_timer_callback


\* a read of the light sensor that failed
LuxFail == -1

\* qsort() of the valid readings with compare_floats(): ascending
RECURSIVE SortedFloats(_)
SortedFloats(readings) ==
    IF readings = <<>> THEN <<>>
    ELSE LET least == CHOOSE i \in 1..Len(readings) :
                         \A j \in 1..Len(readings) : readings[i] <= readings[j]
         IN <<readings[least]>>
              \o SortedFloats([k \in 1..(Len(readings) - 1) |->
                                 IF k < least THEN readings[k] ELSE readings[k + 1]])

RECURSIVE SumFrom(_, _, _)
SumFrom(readings, i, end) ==
    IF i >= end THEN 0 ELSE readings[i + 1] + SumFrom(readings, i + 1, end)

\* read_all_sensors(), the light field: outs are the outcomes of the five
\* calls of tsl2591_read_data(), a reading or LuxFail.  The readings of the
\* model are multiples of three, so that the float mean of three of them is
\* the exact quotient.
tsl2591_lux(outs) ==
    LET lux_readings   == SortedFloats(SelectSeq(outs, LAMBDA o : o # LuxFail))
        valid_readings == Len(lux_readings)
        start_index    == IF valid_readings > 3 THEN 1 ELSE 0
        end_index      == IF valid_readings > 4 THEN valid_readings - 1
                          ELSE valid_readings
        count_for_avg  == end_index - start_index
    IN IF valid_readings >= 3
       THEN [lux |-> IF count_for_avg > 0
                     THEN SumFrom(lux_readings, start_index, end_index) \div count_for_avg
                     ELSE lux_readings[1],
             sensor_error |-> FALSE]
       ELSE [lux |-> 0, sensor_error |-> TRUE]

\* read_all_sensors(): the composite sample, stamped with the local time
read_all_sensors(reading) ==
    [datetime |-> LocalTime(now), lux |-> reading.lux,
     temperature |-> reading.temperature, humidity |-> reading.humidity,
     soil_moisture |-> reading.soil_moisture,
     soil_temperature |-> reading.soil_temperature]

\* the sub-sensors read_all_sensors() reads in the build of HARDWARE_VERSION 30
SubSensors == {"FDC1004", "SHT40", "TSL2591", "TC74"}

\* what read_all_sensors() puts into the composite sample when the drivers
\* deliver reading and the reads of the sub-sensors in failed fail: a failed
\* read leaves the fallback value 0 in its fields (and sets sensor_error,
\* which the store does not keep); no failure ends the function early
SensorsRead(reading, failed) ==
    [lux |-> IF "TSL2591" \in failed THEN 0 ELSE reading.lux,
     temperature |-> IF "SHT40" \in failed THEN 0 ELSE reading.temperature,
     humidity |-> IF "SHT40" \in failed THEN 0 ELSE reading.humidity,
     soil_moisture |-> IF "FDC1004" \in failed THEN 0 ELSE reading.soil_moisture,
     soil_temperature |-> IF "TC74" \in failed THEN 0 ELSE reading.soil_temperature]

\* a pass that stores only the samples whose moisture was read
ProcessReadMoisture(buf, widx, daily, sensor_data) ==
    IF sensor_data.soil_moisture = 0
    THEN [minute |-> buf, widx |-> widx, daily |-> daily]
    ELSE data_buffer_add_minute_data(buf, widx, daily, sensor_data)

\* plant_manager_process_sensor_data() of the initialised plant manager: the
\* sample is handed to the ring store whatever it holds
plant_manager_process_sensor_data(buf, widx, daily, sensor_data) ==
    data_buffer_add_minute_data(buf, widx, daily, sensor_data)

\* sensor_read_task(), from ulTaskNotifyTake(pdTRUE) returning to the call
\* of vTaskDelay(): the notification value is cleared, the sensors are read
\* and the sample is stored.  tx of the step record lists the notifications
\* sent on the sensor data characteristic: the task sends none; value holds
\* the sample handed to data_buffer_add_minute_data().
SensorTaskRun(Readings) ==
    \E reading \in Readings :
      /\ sensor_pc = "wait"
      /\ sensor_notify > 0
      /\ sensor_notify' = 0
      /\ sensor_pc' = "delay"
      /\ LET added == plant_manager_process_sensor_data(g_minute_buffer,
                          g_minute_write_index, g_daily_buffer,
                          read_all_sensors(reading))
         IN /\ g_minute_buffer' = added.minute
            /\ g_minute_write_index' = added.widx
            /\ g_daily_buffer' = added.daily
      /\ ev' = Ev("sample", FALSE, 0, NoCmd, NoStatus, FALSE, <<>>,
                  <<read_all_sensors(reading)>>)
      /\ UNCHANGED <<analysisVars, now, ticks, configVars, linkVars,
                     g_command_processing, g_total_sensor_readings, inflight>>

\* sensor_read_task(): vTaskDelay(1000 ms) returns
SensorTaskDelayDone ==
    /\ sensor_pc = "delay"
    /\ sensor_pc' = "wait"
    /\ ev' = NoEv("delay_done")
    /\ UNCHANGED <<analysisVars, now, ticks, sensor_notify, storeVars, configVars, linkVars,
                   g_command_processing, g_total_sensor_readings, inflight>>

\* the SNTP client steps the system clock
TimeSync(Times) ==
    \E t \in Times :
      /\ now # t
      /\ now' = t
      /\ ev' = NoEv("time_sync")
      /\ UNCHANGED <<analysisVars, taskVars, storeVars, configVars, linkVars,
                     g_command_processing, g_total_sensor_readings, inflight>>

\* sensor readings (mV, tenths of a degree, percent, lux)
Reading1 == [lux |-> 500, temperature |-> 223, humidity |-> 40,
             soil_moisture |-> 1500, soil_temperature |-> 201]
Reading2 == [lux |-> 800, temperature |-> 251, humidity |-> 35,
             soil_moisture |-> 2600, soil_temperature |-> 215]

(***************************************************************************)
(* Plant manager (plant_manager.c) and the analysis task (main.c).  The    *)
(* decision engine is handed a pointer to g_plant_profile and reads its    *)
(* fields one rule after another, with calls into the ring store between   *)
(* them; nothing guards the profile, so the link-host task may replace it  *)
(* between two rules.  The engine is therefore taken one rule at a step:   *)
(* analysis.pc is the rule the task is about to evaluate, analysis.latest  *)
(* the sample it was handed and analysis.seen the profile fields it has    *)
(* read so far, in order.  The memcpy() of plant_manager_update_profile()  *)
(* is taken as one step.  The model does not relate the period of the      *)
(* analysis loop to the sampling period.                                   *)
(***************************************************************************)
\* a read of a field of the active profile, as the engine sees it
ReadField(field) == <<field, g_plant_profile[field]>>

\* the engine returns / goes on to the next rule
Verdict(reads, condition, rule) ==
    [reads |-> reads, done |-> TRUE, condition |-> condition, next |-> "sleep",
     rule |-> rule]
Onward(reads, next) ==
    [reads |-> reads, done |-> FALSE, condition |-> "", next |-> next, rule |-> ""]

\* a quotient sum/count compared with a threshold
QuotGe(q, v) == q.num >= v * q.den

\* hour_data[2].soil_moisture in detect_watering_event() at clock reading t,
\* when the last hour holds three samples or more: the set of its possible
\* values.  The last hour is sorted newest first with qsort(), which leaves
\* the order of samples of equal time unspecified: every slot that may stand
\* at index 2 gives a value.
moisture_2_samples_ago(buf, t) ==
    LET got       == data_buffer_get_recent_minute_data(buf, 1, t)
        hour_data == {<<MkTime(buf[i].timestamp), i>> : i \in got.picked}
        two_samples_ago ==
            {d \in hour_data :
               /\ Cardinality({e \in hour_data : e[1] > d[1]}) <= 2
               /\ Cardinality({e \in hour_data : e[1] >= d[1]}) >= 3}
    IN {buf[d[2]].soil_moisture : d \in two_samples_ago}

\* detect_watering_event() at clock reading t: the set of its possible
\* results
detect_watering_event(buf, current_moisture, threshold_mv, t) ==
    LET got == data_buffer_get_recent_minute_data(buf, 1, t)
    IN IF got.ret # ESP_OK \/ got.count < 3
       THEN {FALSE}
       ELSE {m - current_moisture >= threshold_mv :
               m \in moisture_2_samples_ago(buf, t)}

\* the test that asks for more summaries than the dry-days trigger
MoreThanDays(ret, summary_count, days) == ret = ESP_OK /\ summary_count > days
\* ret == ESP_OK && summary_count >= profile->soil_dry_days_for_watering
EnoughSummaries(ret, summary_count, days) == ret = ESP_OK /\ summary_count >= days

\* the values of plant_condition_t
plant_condition_t ==
    {"SOIL_DRY", "SOIL_WET", "NEEDS_WATERING", "WATERING_COMPLETED",
     "TEMP_TOO_HIGH", "TEMP_TOO_LOW", "ERROR_CONDITION"}

\* the elements of the local array daily_summaries of the engine
DAILY_SUMMARIES_LEN == 7

\* the call of rule 6 copied summary_count summaries into daily_summaries:
\* more than the array holds are written over the stack frame beyond it
SummariesOverflow(summary_count) == summary_count > DAILY_SUMMARIES_LEN

\* the first rule determine_plant_condition() evaluates
FirstRuleMoisture == "watering_event"
FirstRule == "temp_high"

\* determine_plant_condition(&g_plant_profile, latest_data), the rule at pc:
\* the set of its outcomes, each with the profile fields the rule reads
determine_plant_condition(pc, latest_data) ==
    LET soil_moisture == latest_data.soil_moisture
        temperature   == latest_data.temperature
        was_dry       == g_last_plant_condition \in {"SOIL_DRY", "NEEDS_WATERING"}
    IN CASE pc = "temp_high" ->
              LET reads == <<ReadField("temp_high_limit")>>
              IN {IF temperature >= g_plant_profile.temp_high_limit
                  THEN Verdict(reads, "TEMP_TOO_HIGH", "high")
                  ELSE Onward(reads, "temp_low")}
         [] pc = "temp_low" ->
              LET reads == <<ReadField("temp_low_limit")>>
              IN {IF temperature <= g_plant_profile.temp_low_limit
                  THEN Verdict(reads, "TEMP_TOO_LOW", "low")
                  ELSE Onward(reads, "watering_event")}
         [] pc = "watering_event" ->
              LET reads == <<ReadField("watering_threshold")>>
              IN {IF detected
                  THEN Verdict(reads, "WATERING_COMPLETED", "watering_event")
                  ELSE Onward(reads, "wet_after_dry") :
                    detected \in detect_watering_event(g_minute_buffer, soil_moisture,
                                     g_plant_profile.watering_threshold, now)}
         [] pc = "wet_after_dry" ->
              LET reads == IF was_dry THEN <<ReadField("soil_wet_threshold")>> ELSE <<>>
              IN {IF was_dry /\ soil_moisture <= g_plant_profile.soil_wet_threshold
                  THEN Verdict(reads, "WATERING_COMPLETED", "wet_after_dry")
                  ELSE Onward(reads, "dry_days")}
         [] pc = "dry_days" ->
              LET days    == g_plant_profile.soil_dry_days_for_watering
                  got     == data_buffer_get_recent_daily_summaries(g_daily_buffer,
                                 days % 256)
                  entered == EnoughSummaries(got.ret, got.count, days)
                  consecutive_dry_days ==
                      Cardinality({i \in 1..got.count :
                                     QuotGe(got.summaries[i].avg_soil_moisture,
                                            g_plant_profile.soil_dry_threshold)})
                  reads   == <<ReadField("soil_dry_days_for_watering")>>
                             \o (IF entered /\ got.count > 0
                                 THEN <<ReadField("soil_dry_threshold")>> ELSE <<>>)
              IN IF SummariesOverflow(got.count)
                 THEN {Verdict(reads, c, "overflow") : c \in plant_condition_t}
                 ELSE {IF entered /\ consecutive_dry_days >= days
                       THEN Verdict(reads, "NEEDS_WATERING", "dry_days")
                       ELSE Onward(reads, "soil_dry")}
         [] pc = "soil_dry" ->
              LET reads == <<ReadField("soil_dry_threshold")>>
              IN {IF soil_moisture >= g_plant_profile.soil_dry_threshold
                  THEN Verdict(reads, "SOIL_DRY", "soil_dry")
                  ELSE Onward(reads, "soil_wet")}
         [] pc = "soil_wet" ->
              LET reads == <<ReadField("soil_wet_threshold")>>
              IN {IF soil_moisture <= g_plant_profile.soil_wet_threshold
                  THEN Verdict(reads, "SOIL_WET", "soil_wet")
                  ELSE Verdict(reads, g_last_plant_condition, "keep")}

\* the record of a finished classification
Status(condition, latest, seen, rule) ==
    [condition |-> condition, latest |-> latest, seen |-> seen, rule |-> rule,
     last |-> g_last_plant_condition, previous |-> plant_status, began |-> analysis.began]

\* status_analysis_task(): vTaskDelay() returns, the latest sample is read
\* and, when there is a valid one, plant_manager_determine_status() is
\* entered; otherwise the status of the round is ERROR_CONDITION
AnalysisStart ==
    /\ analysis.pc = "sleep"
    /\ LET got == data_buffer_get_latest_minute_data(g_minute_buffer,
                                                     g_minute_write_index)
       IN IF got.ret = ESP_OK /\ got.data.valid
          THEN /\ analysis' = [pc |-> FirstRule, latest |-> <<got.data>>, seen |-> <<>>,
                             began |-> now]
               /\ ev' = NoEv("analyse")
               /\ UNCHANGED plant_status
          ELSE /\ analysis' = AnalysisIdle
               /\ plant_status' = <<"ERROR_CONDITION">>
               /\ ev' = Ev("status", FALSE, 0, NoCmd, NoStatus, FALSE, <<>>,
                           <<Status("ERROR_CONDITION", <<>>, <<>>, "missing")>>)
    /\ UNCHANGED <<g_last_plant_condition, now, taskVars, storeVars, configVars,
                   linkVars, g_command_processing, g_total_sensor_readings, inflight>>

\* plant_manager_determine_status(): the next rule of the engine; with the
\* rule that returns, the condition is kept as the last one and the task
\* goes back to its delay
AnalysisStep ==
    /\ analysis.pc # "sleep"
    /\ \E r \in determine_plant_condition(analysis.pc, analysis.latest[1]) :
         LET seen == analysis.seen \o r.reads
         IN IF r.done
            THEN /\ g_last_plant_condition' = r.condition
                 /\ plant_status' = <<r.condition>>
                 /\ analysis' = AnalysisIdle
                 /\ ev' = Ev("status", FALSE, 0, NoCmd, NoStatus, FALSE, <<>>,
                             <<Status(r.condition, analysis.latest, seen, r.rule)>>)
            ELSE /\ analysis' = [analysis EXCEPT !.pc = r.next, !.seen = seen]
                 /\ ev' = NoEv("rule")
                 /\ UNCHANGED <<g_last_plant_condition, plant_status>>
    /\ UNCHANGED <<now, taskVars, storeVars, configVars, linkVars,
                   g_command_processing, g_total_sensor_readings, inflight>>

(***************************************************************************)
(* Specification of the command protocol: every command id with            *)
(* representative payloads, over the first sampling period after boot.     *)
(***************************************************************************)
\* sequence numbers a client uses
ClientSeqs == <<3, 7>>
SEQ_A == ClientSeqs[1]
SEQ_B == ClientSeqs[2]

WifiPayload(ssid, password) ==
    [kind |-> "wifi_config", ssid |-> Field(ssid, WIFI_SSID_FIELD),
     password |-> Field(password, WIFI_PASSWORD_FIELD)]

TimeRequest(t) == [kind |-> "time_request", requested_time |-> LocalTime(t)]

TzPayload(str) == [kind |-> "bytes", bytes |-> str]

\* frames that pass the length check of the callback
ProtocolFrames ==
    { Frame(id, SEQ_A, 0, NoData) :
        id \in {CMD_GET_SENSOR_DATA, CMD_GET_SYSTEM_STATUS, CMD_GET_PLANT_PROFILE,
                CMD_SYSTEM_RESET, CMD_GET_DEVICE_INFO, CMD_GET_SWITCH_STATUS,
                CMD_GET_WIFI_CONFIG, CMD_WIFI_CONNECT, CMD_GET_TIMEZONE,
                CMD_SYNC_TIME, CMD_WIFI_DISCONNECT, CMD_SAVE_WIFI_CONFIG,
                CMD_SAVE_PLANT_PROFILE, CMD_SAVE_TIMEZONE, CMD_GET_SENSOR_DATA_V2,
                CMD_GET_HISTORY_DATA, CMD_UNKNOWN_FF,
                CMD_SET_PLANT_PROFILE, CMD_SET_WIFI_CONFIG, CMD_SET_TIMEZONE,
                CMD_GET_TIME_DATA} }
    \cup { Frame(id, SEQ_B, 0, NoData) : id \in {CMD_GET_DEVICE_INFO, CMD_UNKNOWN_FF} }
    \cup { Frame(CMD_SET_PLANT_PROFILE, SEQ_A, SIZEOF_PLANT_PROFILE,
                 [kind |-> "plant_profile", profile |-> Profile1]),
           Frame(CMD_SET_WIFI_CONFIG, SEQ_A, SIZEOF_WIFI_CONFIG_DATA,
                 WifiPayload(Str_home, Str_abcdef)),
           Frame(CMD_SET_TIMEZONE, SEQ_A, Len(Str_KST), TzPayload(Str_KST)),
           Frame(CMD_SET_TIMEZONE, SEQ_A, MAX_TIMEZONE_LENGTH + 1,
                 TzPayload([i \in 1..(MAX_TIMEZONE_LENGTH + 1) |-> Str_abcdef[1]])),
           Frame(CMD_GET_TIME_DATA, SEQ_B, SIZEOF_TIME_DATA_REQUEST, TimeRequest(0)),
           Frame(CMD_GET_TIME_DATA, SEQ_A, SIZEOF_TIME_DATA_REQUEST,
                 TimeRequest(SECS_PER_HOUR)) }

\* writes the length check refuses: shorter than the header, and a header
\* that declares more or fewer payload bytes than the write carries
MalformedFrames ==
    { RawFrame(2, CMD_GET_DEVICE_INFO, 0, 0),
      RawFrame(SIZEOF_COMMAND_PACKET, CMD_GET_DEVICE_INFO, SEQ_A, 8),
      RawFrame(SIZEOF_COMMAND_PACKET + 2, CMD_GET_DEVICE_INFO, SEQ_A, 0) }

Next ==
    \/ Connect
    \/ Disconnect
    \/ Subscribe({"response"})
    \/ CommandWrite(ProtocolFrames \cup MalformedFrames)
    \/ CommandComplete({"ok", "open"})
    \/ SystemRestart
    \/ ResponseAccess
    \/ SensorTaskRun({Reading1})
    \/ SensorTaskDelayDone

Spec == Init /\ [][Next]_vars

(***************************************************************************)
(* Specification of the ring store: sampling over several timer periods,   *)
(* clock steps, and the commands that read the store.                      *)
(***************************************************************************)
StoreFrames ==
    { Frame(CMD_GET_SENSOR_DATA, SEQ_A, 0, NoData),
      Frame(CMD_GET_TIME_DATA, SEQ_A, SIZEOF_TIME_DATA_REQUEST, TimeRequest(0)) }

NextStore ==
    \/ Connect
    \/ Disconnect
    \/ Subscribe({"sensor_data"})
    \/ CommandWrite(StoreFrames)
    \/ CommandComplete({"ok"})
    \/ TimerFire
    \/ SensorTaskRun({Reading1, Reading2})
    \/ SensorTaskDelayDone
    \/ TimeSync(SyncTimes)

SpecStore == Init /\ [][NextStore]_vars

(***************************************************************************)
(* Specification of the link configuration: secrets of every length around *)
(* the masked prefix are set, read back and saved.                         *)
(***************************************************************************)
LinkFrames ==
    { Frame(CMD_SET_WIFI_CONFIG, SEQ_A, SIZEOF_WIFI_CONFIG_DATA,
            WifiPayload(Str_home, secret)) : secret \in Secrets }
    \cup { Frame(CMD_GET_WIFI_CONFIG, SEQ_B, 0, NoData),
           Frame(CMD_SAVE_WIFI_CONFIG, SEQ_A, 0, NoData) }

NextLink ==
    \/ Connect
    \/ Disconnect
    \/ Subscribe({"response", "data_transfer"})
    \/ CommandWrite(LinkFrames)
    \/ CommandComplete(NvsOutcomes)

SpecLink == Init /\ [][NextLink]_vars

(***************************************************************************)
(* The ring store over a whole day of sampling.  The device restarts with  *)
(* a synchronised clock at local midnight and samples once a period; the   *)
(* sensor task keeps up with the timer for the first RingMissFrom periods, *)
(* after which periods may pass while a sample is still pending.           *)
(***************************************************************************)
MaxRingTicks == 1445   \* sampling periods per behaviour of the ring store

\* the period from which the sensor task may fall behind the timer
RingMissFrom == MaxRingTicks - 3

\* 2025-01-15 00:00:00 local time
RingStart == 1736899200 - TZ_OFFSET_HOURS * SECS_PER_HOUR

InitRing == BootState(RingStart)

RingTimerFire ==
    /\ ticks < MaxRingTicks
    /\ ticks < RingMissFrom => (sensor_notify = 0 /\ sensor_pc = "wait")
    /\ notify_timer_callback

NextRing ==
    \/ RingTimerFire
    \/ SensorTaskRun({Reading1})
    \/ SensorTaskDelayDone

SpecRing == InitRing /\ [][NextRing]_vars

(***************************************************************************)
(* The configuration store (nvs_config.c) used through its interface.  The *)
(* flash holds nothing, or blobs left by a build with other structure      *)
(* sizes; the boot may have failed to store the default profile.           *)
(***************************************************************************)
FlashImages ==
    { FreshNvs,
      [profile  |-> <<ForeignBlob(SIZEOF_PLANT_PROFILE - 4)>>,
       wifi     |-> <<ForeignBlob(SIZEOF_WIFI_CONFIG_DATA)>>,
       timezone |-> <<>>] }

InitNvs ==
    \E flash \in FlashImages, wr \in {"ok", "set"} :
       StartState(0, flash, wr, EmptyStore, 1)

\* a timezone string that fills the buffer of MAX_TIMEZONE_LENGTH bytes
Str_TzLong == [i \in 1..(MAX_TIMEZONE_LENGTH - 1) |-> 65 + (i % 26)]

\* credentials a client provisions
WifiConfigs ==
    { [ssid |-> Field(Str_home, WIFI_SSID_FIELD), password |-> Field(pw, WIFI_PASSWORD_FIELD)] :
        pw \in {Str_abcdef, <<>>} }

\* nvs_config_save_plant_profile(profile)
SaveProfile(Profiles, Outcomes) ==
    \E profile \in Profiles, o \in Outcomes :
      LET saved == nvs_config_save(nvs, "profile", profile, o)
      IN /\ nvs' = saved.nvs
         /\ ev' = Ev("save_profile", FALSE, saved.err, NoCmd, NoStatus, FALSE, <<>>,
                     <<[new |-> <<profile>>, old |-> nvs.profile]>>)
         /\ UNCHANGED <<analysisVars, now, taskVars, storeVars, linkVars, g_plant_profile,
                        g_wifi_config, g_timezone, g_command_processing,
                        g_total_sensor_readings, inflight>>

\* nvs_config_load_plant_profile(&g_plant_profile), as plant_manager_init() calls it
LoadProfile(Outcomes) ==
    \E rd \in LoadOutcomes, wr \in Outcomes :
      LET loaded == nvs_config_load_plant_profile(nvs, rd, wr)
      IN /\ nvs' = loaded.nvs
         /\ g_plant_profile' = loaded.profile
         /\ ev' = Ev("load_profile", FALSE, loaded.err, NoCmd, NoStatus, FALSE, <<>>,
                     <<[profile |-> loaded.profile, old |-> nvs.profile,
                        writes |-> loaded.writes, rd |-> rd, wr |-> wr]>>)
         /\ UNCHANGED <<analysisVars, now, taskVars, storeVars, linkVars,
                        g_wifi_config, g_timezone, g_command_processing,
                        g_total_sensor_readings, inflight>>

\* nvs_config_save_wifi_config(wifi_config)
SaveWifi(Configs, Outcomes) ==
    \E wifi_config \in Configs, o \in Outcomes :
      LET saved == nvs_config_save(nvs, "wifi", wifi_config, o)
      IN /\ nvs' = saved.nvs
         /\ ev' = Ev("save_wifi", FALSE, saved.err, NoCmd, NoStatus, FALSE, <<>>,
                     <<[new |-> <<wifi_config>>, old |-> nvs.wifi]>>)
         /\ UNCHANGED <<analysisVars, now, taskVars, storeVars, linkVars, g_plant_profile,
                        g_wifi_config, g_timezone, g_command_processing,
                        g_total_sensor_readings, inflight>>

\* nvs_config_load_wifi_config(wifi_config)
LoadWifi ==
    \E rd \in LoadOutcomes :
      LET loaded == nvs_config_load_wifi_config(nvs, rd)
      IN /\ nvs' = loaded.nvs
         /\ ev' = Ev("load_wifi", FALSE, loaded.err, NoCmd, NoStatus, FALSE, <<>>,
                     <<[wifi_config |-> loaded.wifi_config, old |-> nvs, rd |-> rd]>>)
         /\ UNCHANGED <<analysisVars, now, taskVars, storeVars, linkVars, g_plant_profile,
                        g_wifi_config, g_timezone, g_command_processing,
                        g_total_sensor_readings, inflight>>

\* nvs_config_save_timezone(timezone), the string in a buffer of
\* MAX_TIMEZONE_LENGTH bytes
SaveTimezone(Timezones, Outcomes) ==
    \E tz \in Timezones, o \in Outcomes :
      LET timezone == Terminate(Field(tz, MAX_TIMEZONE_LENGTH))
          saved    == nvs_config_save_timezone(nvs, timezone, o)
      IN /\ nvs' = saved.nvs
         /\ ev' = Ev("save_timezone", FALSE, saved.err, NoCmd, NoStatus, FALSE, <<>>,
                     <<[new |-> <<timezone>>, old |-> nvs.timezone]>>)
         /\ UNCHANGED <<analysisVars, now, taskVars, storeVars, linkVars, g_plant_profile,
                        g_wifi_config, g_timezone, g_command_processing,
                        g_total_sensor_readings, inflight>>

\* nvs_config_load_timezone(nvs_timezone, MAX_TIMEZONE_LENGTH)
LoadTimezone ==
    \E rd \in LoadOutcomes :
      LET loaded == nvs_config_load_timezone(nvs, MAX_TIMEZONE_LENGTH, rd)
      IN /\ nvs' = loaded.nvs
         /\ ev' = Ev("load_timezone", FALSE, loaded.err, NoCmd, NoStatus, FALSE, <<>>,
                     <<[timezone |-> loaded.timezone, old |-> nvs, rd |-> rd]>>)
         /\ UNCHANGED <<analysisVars, now, taskVars, storeVars, linkVars, g_plant_profile,
                        g_wifi_config, g_timezone, g_command_processing,
                        g_total_sensor_readings, inflight>>

NextNvs ==
    \/ SaveProfile({DefaultProfile, Profile1}, NvsOutcomes)
    \/ LoadProfile(NvsOutcomes)
    \/ SaveWifi(WifiConfigs, NvsOutcomes)
    \/ LoadWifi
    \/ SaveTimezone({Str_JST, Str_TzLong}, NvsOutcomes)
    \/ LoadTimezone

SpecNvs == InitNvs /\ [][NextNvs]_vars

(***************************************************************************)
(* The daily buffer across the first synchronisation.  The device samples  *)
(* with its unsynchronised clock (1970-01-01, daily index 1), the SNTP     *)
(* client then steps the clock to 2025-01-31 (daily index 31 modulo 30,    *)
(* the same slot), and a caller of the store may ask for the summary of a  *)
(* date in the minute buffer to be recalculated.                           *)
(***************************************************************************)
CollidingTimes ==
    { DaysFromCivil(2025, 1, 31) * SECS_PER_DAY + 3 * SECS_PER_HOUR + 34 * SECS_PER_MIN }

\* a call of data_buffer_recalculate_daily_summary() for the date of a
\* sample in the minute buffer
Recalculate ==
    \E j \in ValidSlots(g_minute_buffer) :
      LET done == data_buffer_recalculate_daily_summary(g_minute_buffer, g_daily_buffer,
                                                        g_minute_buffer[j].timestamp)
      IN /\ g_daily_buffer' = done.daily
         /\ ev' = Ev("recalculate", FALSE, done.ret, NoCmd, NoStatus, FALSE, <<>>,
                     <<g_minute_buffer[j].timestamp>>)
         /\ UNCHANGED <<analysisVars, now, ticks, taskVars, g_minute_buffer, g_minute_write_index,
                        configVars, linkVars, g_command_processing,
                        g_total_sensor_readings, inflight>>

NextDates ==
    \/ TimerFire
    \/ SensorTaskRun({Reading1, Reading2})
    \/ SensorTaskDelayDone
    \/ TimeSync(CollidingTimes)
    \/ Recalculate

SpecDates == Init /\ [][NextDates]_vars

(***************************************************************************)
(* The ring store late in the day.  StoreAfter(k) is the store SpecRing    *)
(* reaches with its k-th sample when no period was missed (RingOnTime, an  *)
(* invariant of SpecRing, says so); SpecDay starts from such stores, so    *)
(* that the wrap of the write index and the change of date are a few       *)
(* steps away.                                                             *)
(***************************************************************************)
\* the slot written by the k-th sample, k = 1, 2, ...
SampleAt(k) ==
    [timestamp |-> LocalTime(RingStart + (k - 1) * (SENSOR_READ_INTERVAL_MS \div 1000)),
     temperature |-> Reading1.temperature, humidity |-> Reading1.humidity,
     lux |-> Reading1.lux, soil_moisture |-> Reading1.soil_moisture,
     soil_temperature |-> Reading1.soil_temperature, valid |-> TRUE]

\* the minute buffer after k samples: slot i holds the last sample written to it
MinuteAfter(k) ==
    [i \in 0..(Min(k, DATA_BUFFER_MINUTES_PER_DAY) - 1) |->
       SampleAt(i + 1 + DATA_BUFFER_MINUTES_PER_DAY
                          * ((k - 1 - i) \div DATA_BUFFER_MINUTES_PER_DAY))]

\* the daily buffer after k samples: each date's slot holds the summary
\* taken when the last sample of that date was stored
DailyAfter(k) ==
    LET Days == {d \in 0..((k - 1) \div DATA_BUFFER_MINUTES_PER_DAY) : k > 0}
        last(d) == Min(k, (d + 1) * DATA_BUFFER_MINUTES_PER_DAY)
        date(d) == SampleAt(last(d)).timestamp
        Slots == {get_daily_index_by_date(date(d)) : d \in Days}
    IN [i \in Slots |->
          LET d == CHOOSE e \in Days : get_daily_index_by_date(date(e)) = i
                                       /\ \A f \in Days :
                                            get_daily_index_by_date(date(f)) = i => f <= e
          IN calculate_daily_summary(MinuteAfter(last(d)), date(d)).summary]

StoreAfter(k) ==
    [minute |-> MinuteAfter(k),
     widx   |-> k % DATA_BUFFER_MINUTES_PER_DAY,
     daily  |-> DailyAfter(k)]

\* the number of samples stored so far (fewer than two rounds of the ring)
InsertsDone ==
    IF Cardinality(ValidSlots(g_minute_buffer)) < DATA_BUFFER_MINUTES_PER_DAY
    THEN g_minute_write_index
    ELSE DATA_BUFFER_MINUTES_PER_DAY + g_minute_write_index

\* while no period was missed, the store is StoreAfter of the samples taken
RingOnTime ==
    ticks < RingMissFrom =>
       /\ g_minute_buffer = StoreAfter(InsertsDone).minute
       /\ g_minute_write_index = StoreAfter(InsertsDone).widx
       /\ g_daily_buffer = StoreAfter(InsertsDone).daily

\* the numbers of samples SpecDay starts after
DayFills == {0, 1, DAILY_COMPLETE_SAMPLES - 1, DAILY_COMPLETE_SAMPLES,
             DATA_BUFFER_MINUTES_PER_DAY - 1, DATA_BUFFER_MINUTES_PER_DAY,
             DATA_BUFFER_MINUTES_PER_DAY + 1}

\* the device k samples after InitRing, the sensor task waiting for the timer
InitDay ==
    \E k \in DayFills :
       StartState(RingStart + (IF k = 0 THEN 0 ELSE k - 1) * (SENSOR_READ_INTERVAL_MS \div 1000),
                  FreshNvs, "ok", StoreAfter(k), IF k = 0 THEN 1 ELSE 0)

NextDay ==
    \/ TimerFire
    \/ SensorTaskRun({Reading1, Reading2})
    \/ SensorTaskDelayDone

SpecDay == InitDay /\ [][NextDay]_vars


(***************************************************************************)
(* The analysis task beside the link-host task and the sensor task: a      *)
(* client sets the profile while samples arrive and are classified.  The   *)
(* two profiles differ in every threshold.                                 *)
(***************************************************************************)
AnalysisProfiles == {DefaultProfile, Profile1}

\* the client sets the profile that is not the one of a fresh device
AnalysisFrames ==
    { Frame(CMD_SET_PLANT_PROFILE, SEQ_A, SIZEOF_PLANT_PROFILE,
            [kind |-> "plant_profile", profile |-> p]) :
        p \in AnalysisProfiles \ {DefaultProfile} }

\* a hot sample of wet soil
ReadingHot == [lux |-> 900, temperature |-> 360, humidity |-> 20,
               soil_moisture |-> 5, soil_temperature |-> 300]

\* a client that waits for the response before it writes the next command
WriteAfterResponse(F) ==
    /\ inflight = <<>>
    /\ CommandWrite(F)

NextAnalysis ==
    \/ Connect
    \/ WriteAfterResponse(AnalysisFrames)
    \/ CommandComplete({"ok"})
    \/ TimerFire
    \/ SensorTaskRun({Reading1, ReadingHot})
    \/ SensorTaskDelayDone
    \/ AnalysisStart
    \/ AnalysisStep

SpecAnalysis == Init /\ [][NextAnalysis]_vars

(***************************************************************************)
(* The decision engine on its own, from boot: the profile is the one       *)
(* found in the flash, samples of several moistures and temperatures       *)
(* arrive and are classified.                                              *)
(***************************************************************************)
\* two profiles with a dry-days trigger of three; the second has its wet
\* threshold above its dry threshold, as the factory default has
ProfileBasil ==
    [plant_name |-> "Basil",
     soil_dry_threshold |-> 1400, soil_wet_threshold |-> 1000,
     soil_dry_days_for_watering |-> 3,
     temp_high_limit |-> 300, temp_low_limit |-> 150,
     watering_threshold |-> 2000]
ProfileMoss ==
    [ProfileBasil EXCEPT !.plant_name = "Moss", !.soil_wet_threshold = 2000]

\* a flash that holds the profile p
FlashWith(p) == [profile |-> <<p>>, wifi |-> <<>>, timezone |-> <<>>]

\* samples of dry soil, of soil just watered, of soil between the
\* thresholds of ProfileBasil, and of a cold room
ReadingDry == [Reading1 EXCEPT !.soil_moisture = 4000]
ReadingWatered == [Reading1 EXCEPT !.soil_moisture = 2000]
ReadingBetween == [Reading1 EXCEPT !.soil_moisture = 1200]
ReadingCold == [Reading1 EXCEPT !.temperature = 120]

InitEngine ==
    \E p \in {ProfileBasil, ProfileMoss} :
       StartState(RingStart, FlashWith(p), "ok", EmptyStore, 1)

NextEngine ==
    \/ TimerFire
    \/ SensorTaskRun({ReadingDry, ReadingWatered, ReadingBetween, ReadingHot,
                      ReadingCold})
    \/ SensorTaskDelayDone
    \/ AnalysisStart
    \/ AnalysisStep

SpecEngine == InitEngine /\ [][NextEngine]_vars

(***************************************************************************)
(* The decision engine on a device that has sampled on time for an hour    *)
(* and forty minutes, the soil at SampleAt() all that time, and has        *)
(* classified its last sample as SOIL_DRY under ProfileBasil; the timer    *)
(* has just fired for the next sample.                                     *)
(***************************************************************************)
\* the number of samples the running device has stored
HourFill == 100

\* the clock when the timer fires for sample k + 1
TimeAfter(k) == RingStart + k * (SENSOR_READ_INTERVAL_MS \div 1000)

\* the running device with k samples stored, the timer just fired
Resumed(k, p, last) ==
    RunningState(TimeAfter(k), FlashWith(p), "ok", StoreAfter(k), 1, last, <<last>>)

InitHour == Resumed(HourFill, ProfileBasil, "SOIL_DRY")

NextHour ==
    \/ TimerFire
    \/ SensorTaskRun({ReadingDry, ReadingWatered})
    \/ SensorTaskDelayDone
    \/ AnalysisStart
    \/ AnalysisStep

SpecHour == InitHour /\ [][NextHour]_vars

(***************************************************************************)
(* The decision engine on a device that has sampled on time for three      *)
(* days and an hour and forty minutes, the soil at SampleAt() all that     *)
(* time: the daily buffer holds three complete summaries.  The engine has  *)
(* classified the last sample: under ProfileBasil it has settled on        *)
(* NEEDS_WATERING, under ProfileMoss it alternates between NEEDS_WATERING  *)
(* and WATERING_COMPLETED.                                                 *)
(***************************************************************************)
\* a sample whose moisture is the dry threshold of both profiles
ReadingAtDry == [Reading1 EXCEPT !.soil_moisture = ProfileBasil.soil_dry_threshold]

DaysFill == 3 * DATA_BUFFER_MINUTES_PER_DAY + HourFill

InitAdvisory ==
    \/ Resumed(DaysFill, ProfileBasil, "NEEDS_WATERING")
    \/ \E last \in {"NEEDS_WATERING", "WATERING_COMPLETED"} :
          Resumed(DaysFill, ProfileMoss, last)

NextAdvisory ==
    \/ TimerFire
    \/ SensorTaskRun({ReadingAtDry})
    \/ SensorTaskDelayDone
    \/ AnalysisStart
    \/ AnalysisStep

SpecAdvisory == InitAdvisory /\ [][NextAdvisory]_vars

(***************************************************************************)
(* The decision engine on a device that has sampled for seventeen days,    *)
(* between two samples: the analysis task classifies the latest sample     *)
(* while a client installs profiles whose dry-days trigger is zero, the    *)
(* default, the size of the array of rule 6, more, and negative.           *)
(***************************************************************************)
SeventeenDays == 17 * DATA_BUFFER_MINUTES_PER_DAY + HourFill

DryDaysTriggers == {0, 3, DAILY_SUMMARIES_LEN, DAILY_SUMMARIES_LEN + 1, -1}

DryDaysFrames ==
    { Frame(CMD_SET_PLANT_PROFILE, SEQ_A, SIZEOF_PLANT_PROFILE,
            [kind |-> "plant_profile",
             profile |-> [ProfileBasil EXCEPT !.soil_dry_days_for_watering = d]]) :
        d \in DryDaysTriggers }

InitDryDays == Resumed(SeventeenDays, ProfileBasil, "NEEDS_WATERING")

NextDryDays ==
    \/ Connect
    \/ WriteAfterResponse(DryDaysFrames)
    \/ CommandComplete({"ok"})
    \/ AnalysisStart
    \/ AnalysisStep

SpecDryDays == InitDryDays /\ [][NextDryDays]_vars

(***************************************************************************)
(* The sampling pass with failing sub-sensors: from boot, every pass reads *)
(* with any combination of the sub-sensors failing.                        *)
(***************************************************************************)
FailingReadings == { SensorsRead(Reading1, failed) : failed \in SUBSET SubSensors }

NextSensors ==
    \/ TimerFire
    \/ SensorTaskRun(FailingReadings)
    \/ SensorTaskDelayDone

SpecSensors == InitRing /\ [][NextSensors]_vars

(***************************************************************************)
(* The daily summaries of a device that has sampled for days: starts after *)
(* no sample, part of a day, whole days within a month, days across the    *)
(* end of the month (the slots of 30 and 31 January and of February lie    *)
(* before those of 15 to 29 January) and more days than the buffer has     *)
(* slots; a user of the store asks for the recent summaries.               *)
(***************************************************************************)
\* the samples of a day that make its summary complete, and a few more
DayFill == DAILY_COMPLETE_SAMPLES + HourFill

SummaryFills ==
    {HourFill,
     DATA_BUFFER_MINUTES_PER_DAY + HourFill,
     DaysFill,
     17 * DATA_BUFFER_MINUTES_PER_DAY + HourFill,
     17 * DATA_BUFFER_MINUTES_PER_DAY + DayFill,
     40 * DATA_BUFFER_MINUTES_PER_DAY + HourFill}

\* the condition the engine has settled on after k samples of Reading1
\* under ProfileBasil
SettledAfter(k) ==
    IF k >= 3 * DATA_BUFFER_MINUTES_PER_DAY THEN "NEEDS_WATERING" ELSE "SOIL_DRY"

InitSummaries ==
    \/ StartState(RingStart, FlashWith(ProfileBasil), "ok", EmptyStore, 1)
    \/ \E k \in SummaryFills : Resumed(k, ProfileBasil, SettledAfter(k))

\* a call of data_buffer_get_recent_daily_summaries(days, ...) by a user of
\* the store; value holds days and what the call returned
RecentSummariesCall ==
    \E days \in 1..DATA_BUFFER_DAYS_PER_MONTH :
      LET got == data_buffer_get_recent_daily_summaries(g_daily_buffer, days)
      IN /\ ev' = Ev("recent_summaries", FALSE, got.ret, NoCmd, NoStatus, FALSE, <<>>,
                     <<days, got>>)
         /\ UNCHANGED <<analysisVars, now, taskVars, storeVars, configVars, linkVars,
                        g_command_processing, g_total_sensor_readings, inflight>>

NextSummaries == RecentSummariesCall

SpecSummaries == InitSummaries /\ [][NextSummaries]_vars


(***************************************************************************)
(* The light field of a sampling pass: every outcome of the five reads of  *)
(* the light sensor.                                                       *)
(***************************************************************************)
LuxValues == {6, 60, 600}

LuxPasses == [1..5 -> LuxValues \cup {LuxFail}]

\* the part of read_all_sensors() that reads the light sensor; value holds
\* the outcomes of the five reads and the light value of the sample
LuxPass ==
    \E outs \in LuxPasses :
      /\ ev' = Ev("lux", FALSE, 0, NoCmd, NoStatus, FALSE, <<>>,
                  <<outs, tsl2591_lux(outs)>>)
      /\ UNCHANGED <<analysisVars, now, taskVars, storeVars, configVars, linkVars,
                     g_command_processing, g_total_sensor_readings, inflight>>

NextLux == LuxPass

SpecLux == InitRing /\ [][NextLux]_vars

(***************************************************************************)
(* The slot of the daily buffer for a date: pairs of dates of a leap year  *)
(* and of a common year that lie less than a round of the buffer apart.    *)
(***************************************************************************)
DateYears == {2024, 2025}

\* the date n days after 1 January of year y, as localtime_r() gives it
DateOfYear(y, n) ==
    LocalTime((DaysFromCivil(y, 1, 1) + n) * SECS_PER_DAY
              - TZ_OFFSET_HOURS * SECS_PER_HOUR)

\* get_daily_index_by_date() for two dates, once per behaviour; value holds
\* the dates and the slots
DailyIndexCall ==
    \E y \in DateYears, n \in 0..365, gap \in 1..(DATA_BUFFER_DAYS_PER_MONTH - 1) :
      LET date1 == DateOfYear(y, n)
          date2 == DateOfYear(y, n + gap)
      IN /\ ev.op # "daily_index"
         /\ ev' = Ev("daily_index", FALSE, 0, NoCmd, NoStatus, FALSE, <<>>,
                     <<date1, date2, get_daily_index_by_date(date1),
                       get_daily_index_by_date(date2)>>)
         /\ UNCHANGED <<analysisVars, now, taskVars, storeVars, configVars, linkVars,
                        g_command_processing, g_total_sensor_readings, inflight>>

NextDatePairs == DailyIndexCall

SpecDatePairs == InitRing /\ [][NextDatePairs]_vars


(***************************************************************************)
(* The dispatcher with timezone strings of the shortest and the longest    *)
(* accepted lengths: a client sends, one at a time, the commands that      *)
(* change the state the handlers answer from; the sensor task stores       *)
(* samples, and the device may be restarted.                               *)
(***************************************************************************)
\* a timezone string of the longest length handle_set_timezone() accepts
Str_Tz64 == [i \in 1..MAX_TIMEZONE_LENGTH |-> 65 + (i % 26)]

TimezoneStrings == {SubSeq(Str_KST, 1, 1), Str_KST, Str_TzLong, Str_Tz64}

TimezoneFrames ==
    { Frame(CMD_SET_TIMEZONE, SEQ_A, Len(str), TzPayload(str)) : str \in TimezoneStrings }

\* the commands that change what a handler answers, and GetTimezone
SessionFrames ==
    TimezoneFrames
    \cup { Frame(id, SEQ_A, 0, NoData) :
             id \in {CMD_GET_TIMEZONE, CMD_SAVE_TIMEZONE, CMD_SYSTEM_RESET,
                     CMD_GET_SENSOR_DATA} }
    \cup { Frame(CMD_SET_PLANT_PROFILE, SEQ_A, SIZEOF_PLANT_PROFILE,
                 [kind |-> "plant_profile", profile |-> Profile1]),
           Frame(CMD_SET_WIFI_CONFIG, SEQ_A, SIZEOF_WIFI_CONFIG_DATA,
                 WifiPayload(Str_home, Str_abcdef)),
           Frame(CMD_SET_TIMEZONE, SEQ_A, MAX_TIMEZONE_LENGTH + 1,
                 TzPayload([i \in 1..(MAX_TIMEZONE_LENGTH + 1) |-> Str_abcdef[1]])) }

NextTimezone ==
    \/ Connect
    \/ WriteAfterResponse(SessionFrames)
    \/ CommandComplete({"ok"})
    \/ SystemRestart
    \/ SensorTaskRun({Reading1})
    \/ SensorTaskDelayDone

SpecTimezone == Init /\ [][NextTimezone]_vars

(***************************************************************************)
(* The link configuration in a session of a client that waits for each     *)
(* response: secrets are set one after another, read back and saved.       *)
(***************************************************************************)
NextSecrets ==
    \/ Connect
    \/ WriteAfterResponse(LinkFrames)
    \/ CommandComplete(NvsOutcomes)

SpecSecrets == Init /\ [][NextSecrets]_vars

(***************************************************************************)
(* The insert into the ring store taken one assignment at a time.  The     *)
(* sensor task runs at priority 5 and the store has no lock: the link-host *)
(* task, which the stack creates at a higher priority, runs whenever a     *)
(* write arrives, also between two assignments of                          *)
(* data_buffer_add_minute_data().  The device has sampled for a day and an *)
(* hour and forty minutes, so the slot at the write index holds the sample *)
(* of a day before; the timer has just fired.                              *)
(***************************************************************************)
RoundFill == DATA_BUFFER_MINUTES_PER_DAY + HourFill

\* the fields of the slot in the order data_buffer_add_minute_data() assigns
\* them
StoreFields ==
    <<"timestamp", "temperature", "humidity", "lux", "soil_moisture",
      "soil_temperature">>

\* what the sensors deliver in the pass that is interrupted
PreemptedReading == ReadingHot

\* sensor_read_task() up to and including one assignment to the slot at the
\* write index: the first takes the notification and reads the sensors
SensorTaskStoreField ==
    \E k \in 1..Len(StoreFields) :
      /\ sensor_pc = (IF k = 1 THEN "wait" ELSE StoreFields[k])
      /\ k = 1 => sensor_notify > 0
      /\ sensor_notify' = (IF k = 1 THEN 0 ELSE sensor_notify)
      /\ sensor_pc' = (IF k < Len(StoreFields) THEN StoreFields[k + 1] ELSE "valid")
      /\ LET sample == EntryOf(read_all_sensors(PreemptedReading))
             entry  == MinuteSlot(g_minute_buffer, g_minute_write_index)
         IN g_minute_buffer' =
               [i \in DOMAIN g_minute_buffer \cup {g_minute_write_index} |->
                  IF i = g_minute_write_index
                  THEN [entry EXCEPT ![StoreFields[k]] = sample[StoreFields[k]]]
                  ELSE g_minute_buffer[i]]
      /\ ev' = NoEv("store_field")
      /\ UNCHANGED <<analysisVars, now, ticks, g_minute_write_index, g_daily_buffer,
                     configVars, linkVars, g_command_processing,
                     g_total_sensor_readings, inflight>>

\* the rest of data_buffer_add_minute_data(): the valid flag, the write index
\* and the daily summary; the task goes on to its delay
SensorTaskStoreDone ==
    /\ sensor_pc = "valid"
    /\ sensor_pc' = "delay"
    /\ LET added == plant_manager_process_sensor_data(g_minute_buffer,
                        g_minute_write_index, g_daily_buffer,
                        read_all_sensors(PreemptedReading))
       IN /\ g_minute_buffer' = added.minute
          /\ g_minute_write_index' = added.widx
          /\ g_daily_buffer' = added.daily
    /\ ev' = Ev("sample", FALSE, 0, NoCmd, NoStatus, FALSE, <<>>,
                <<read_all_sensors(PreemptedReading)>>)
    /\ UNCHANGED <<analysisVars, now, ticks, sensor_notify, configVars, linkVars,
                   g_command_processing, g_total_sensor_readings, inflight>>

\* the client asks for the latest sample and for the sample of the minute
\* of the pass and of the minute before
PreemptFrames ==
    { Frame(CMD_GET_SENSOR_DATA, SEQ_A, 0, NoData) }
    \cup { Frame(CMD_GET_TIME_DATA, SEQ_A, SIZEOF_TIME_DATA_REQUEST, TimeRequest(t)) :
             t \in {TimeAfter(RoundFill), TimeAfter(RoundFill - 1)} }

InitPreempt == Resumed(RoundFill, ProfileBasil, "SOIL_DRY")

NextPreempt ==
    \/ Connect
    \/ WriteAfterResponse(PreemptFrames)
    \/ CommandComplete({"ok"})
    \/ SensorTaskStoreField
    \/ SensorTaskStoreDone
    \/ SensorTaskDelayDone

SpecPreempt == InitPreempt /\ [][NextPreempt]_vars

(***************************************************************************)
(* The plant profile in a session of a client that waits for each          *)
(* response: profiles are set with payloads of the right and of a wrong    *)
(* length under every outcome of the store, read back and saved, and the   *)
(* device may be restarted.                                                *)
(***************************************************************************)
ProfileFrames ==
    { Frame(CMD_SET_PLANT_PROFILE, SEQ_A, SIZEOF_PLANT_PROFILE,
            [kind |-> "plant_profile", profile |-> p]) :
        p \in {Profile1, ProfileBasil, ProfileMoss} }
    \cup { Frame(id, SEQ_A, 0, NoData) :
             id \in {CMD_SET_PLANT_PROFILE, CMD_GET_PLANT_PROFILE,
                     CMD_SAVE_PLANT_PROFILE, CMD_SYSTEM_RESET} }

NextProfile ==
    \/ Connect
    \/ WriteAfterResponse(ProfileFrames)
    \/ CommandComplete(NvsOutcomes)
    \/ SystemRestart

SpecProfile == Init /\ [][NextProfile]_vars

(***************************************************************************)
(* Properties.                                                             *)
(***************************************************************************)
\* the step was the completion of a command: dispatch, send, release
Completed == ev.op = "complete"

\* the frames the step sent
SentFrames == {ev.tx[i].resp : i \in 1..Len(ev.tx)}

\* C1: when a second command frame arrives while the handler of the first
\* has not returned, the second is dropped without any response and without
\* being queued, and the first gets exactly one response, its own.
InvC1_SecondFrameDropped ==
    /\ Len(inflight) <= 1
    /\ (ev.op = "write" /\ ev.busy) =>
          /\ ev.tx = <<>>
          /\ ev.rc = 0
          /\ inflight # <<>> /\ Head(inflight).overlapped
    /\ (Completed /\ ev.overlapped) =>
          /\ Len(ev.tx) = 1
          /\ ev.tx[1].resp.response_id = ev.cmd.command_id
          /\ ev.tx[1].resp.sequence_num = ev.cmd.sequence_num
          /\ \A i \in 1..Len(inflight) :
                \* nothing is left but a SystemReset waiting for its restart
                inflight[i].pc = "delay" /\ Header(inflight[i].frame) = ev.cmd

\* a command completed after a second frame had arrived during its handling,
\* and its response went out as a notification
WitC1_OverlappedCompleted ==
    /\ Completed /\ ev.overlapped
    /\ Len(ev.tx) = 1 /\ ev.tx[1].delivered
    /\ ev.cmd.command_id = CMD_GET_DEVICE_INFO

\* C2: every accepted frame is answered by a response that carries the
\* sequence number and the command id of the frame.
InvC2_ResponseEchoesHeader ==
    Completed =>
       /\ Len(ev.tx) = 1
       /\ ev.tx[1].resp.response_id = ev.cmd.command_id
       /\ ev.tx[1].resp.sequence_num = ev.cmd.sequence_num

\* a failed lookup was answered with the second sequence number
WitC2_EchoOnError ==
    /\ Completed
    /\ ev.cmd.command_id = CMD_UNKNOWN_FF /\ ev.cmd.sequence_num = SEQ_B
    /\ ev.tx[1].resp.sequence_num = SEQ_B
    /\ ev.tx[1].resp.response_id = CMD_UNKNOWN_FF

\* C3: an accepted frame with an unknown command id (0xFF) is answered with
\* status INVALID_COMMAND (0x02), the same id and sequence number and no
\* payload.
InvC3_UnknownCommandStatus ==
    (Completed /\ ev.cmd.command_id = CMD_UNKNOWN_FF) =>
       SentFrames = { Response(CMD_UNKNOWN_FF, RESP_STATUS_INVALID_COMMAND,
                               ev.cmd.sequence_num, 0, NoData) }

\* C4: a write that fails the length validation (shorter than the header, or
\* a declared payload length that differs from the bytes received) is
\* answered with a response of status INVALID_PARAMETER.
InvC4_MalformedFrameAnswered ==
    (/\ ev.op = "write" /\ ~ev.busy
     /\ \/ ev.cmd.om_len < SIZEOF_COMMAND_PACKET
        \/ ev.cmd.om_len # SIZEOF_COMMAND_PACKET + ev.cmd.data_length) =>
       /\ Len(ev.tx) = 1
       /\ ev.tx[1].resp.status_code = RESP_STATUS_INVALID_PARAMETER

\* C5: the status of the response sent is the status the handler selected;
\* the dispatcher substitutes no other status.
InvC5_HandlerStatusSent ==
    Completed => \A r \in SentFrames : r.status_code = ev.hstatus

\* C6: when a command completes and its response could not go out as a
\* notification because the client is not subscribed, a read of the
\* response characteristic returns that response.
InvC6_ResponseReadable ==
    (/\ Completed /\ g_conn_handle # BLE_HS_CONN_HANDLE_NONE
     /\ \E i \in 1..Len(ev.tx) : ~ev.tx[i].delivered) =>
       ResponseReadValue = <<ev.tx[Len(ev.tx)].resp>>

\* C7: while a client is connected and subscribed to the sensor data
\* characteristic, every sampling step sends one sensor data notification.
InvC7_SampleNotified ==
    (/\ ev.op = "sample" /\ g_conn_handle # BLE_HS_CONN_HANDLE_NONE
     /\ g_is_subscribed_sensor) =>
       Len(ev.tx) = 1

\* the first three characters of a string
Prefix3(str) == SubSeq(str, 1, Min(3, Len(str)))

\* C8: the password field of a GetLinkConfig response is the first three
\* characters of the stored secret followed by "***", and is empty when the
\* stored secret is empty; the rest of the field is zero.
InvC8_PasswordMasked ==
    (Completed /\ ev.cmd.command_id = CMD_GET_WIFI_CONFIG) =>
       LET secret == CStr(g_wifi_config.password)
           field  == ev.tx[1].resp.data.password
           shown  == IF secret = <<>> THEN <<>>
                     ELSE Prefix3(secret) \o <<CH_STAR, CH_STAR, CH_STAR>>
       IN /\ ev.tx[1].resp.status_code = RESP_STATUS_SUCCESS
          /\ Len(field) = WIFI_PASSWORD_FIELD
          /\ \A i \in 1..Len(field) :
                field[i] = IF i <= Len(shown) THEN shown[i] ELSE NUL

\* a secret longer than the visible prefix was read back masked
WitC8_LongSecretMasked ==
    /\ Completed /\ ev.cmd.command_id = CMD_GET_WIFI_CONFIG
    /\ CStr(g_wifi_config.password) = Str_abcdef
    /\ CStr(ev.tx[1].resp.data.password)
          = SubSeq(Str_abcdef, 1, 3) \o <<CH_STAR, CH_STAR, CH_STAR>>

\* C9: the minute buffer never holds two valid slots of the same
\* (year, month, day, hour, minute).
InvC9_OneSlotPerMinute ==
    \A i, j \in ValidSlots(g_minute_buffer) :
       i # j => ~is_same_minute(g_minute_buffer[i].timestamp,
                                g_minute_buffer[j].timestamp)

\* the commands that read the minute buffer
ReadCommands == {CMD_GET_SENSOR_DATA, CMD_GET_SENSOR_DATA_V2, CMD_GET_TIME_DATA}

\* C10: when the store is read, every valid minute slot has a timestamp
\* within the 24 hours before the current time.
InvC10_SlotsWithinLastDay ==
    (Completed /\ ev.cmd.command_id \in ReadCommands) =>
       \A i \in ValidSlots(g_minute_buffer) :
          LET t == MkTime(g_minute_buffer[i].timestamp)
          IN now - 24 * SECS_PER_HOUR < t /\ t <= now


\* the step was a sample taken and stored by the sensor task
Sampled == ev.op = "sample"

\* the latest sample as the store returns it
Latest == data_buffer_get_latest_minute_data(g_minute_buffer, g_minute_write_index)

\* C11: after an insert, also one that wraps the write index, the latest
\* sample read from the store equals the inserted one in timestamp and in
\* every field.
InvC11_LatestIsInserted ==
    Sampled => /\ Latest.ret = ESP_OK
               /\ Latest.data = EntryOf(ev.value[1])

\* the insert filled the last slot and wrapped the write index to the first
WitC11_LatestAfterWrap ==
    /\ Sampled
    /\ g_minute_write_index = 0
    /\ Cardinality(ValidSlots(g_minute_buffer)) = DATA_BUFFER_MINUTES_PER_DAY
    /\ Latest.data.timestamp = LocalTime(now)


\* the samples of the last 24 hours as the store returns them now
Recent == data_buffer_get_recent_minute_data(g_minute_buffer, 24, now)

\* the time of a valid minute slot, in seconds
StampOf(i) == MkTime(g_minute_buffer[i].timestamp)

\* the time of the oldest sample the minute buffer holds
OldestStamp ==
    CHOOSE t \in {StampOf(i) : i \in ValidSlots(g_minute_buffer)} :
       \A i \in ValidSlots(g_minute_buffer) : t <= StampOf(i)

\* 1441 samples have been stored since the store was empty; the first of
\* them was stamped RingStart
Stored1441 == InsertsDone = DATA_BUFFER_MINUTES_PER_DAY + 1

\* what C12 expects of the read: 1440 samples, none stamped as the first
RecentIsLastDay ==
    /\ Recent.count = DATA_BUFFER_MINUTES_PER_DAY
    /\ \A i \in Recent.picked : StampOf(i) # RingStart

\* the samples held are one minute apart and the clock is less than two
\* sampling periods past the latest of them
OnTheMinute ==
    /\ MkTime(Latest.data.timestamp) - OldestStamp
          = (DATA_BUFFER_MINUTES_PER_DAY - 1) * SECS_PER_MIN
    /\ now - MkTime(Latest.data.timestamp) < 2 * SECS_PER_MIN

InvC13_CompleteSummaryCoherent ==
    \A i \in DOMAIN g_daily_buffer :
       g_daily_buffer[i].complete =>
          g_daily_buffer[i]
             = calculate_daily_summary(g_minute_buffer, g_daily_buffer[i].date).summary


\* date1 is an earlier calendar date than date2
OlderDate(date1, date2) ==
    \/ date1.tm_year < date2.tm_year
    \/ date1.tm_year = date2.tm_year /\ date1.tm_mon < date2.tm_mon
    \/ date1.tm_year = date2.tm_year /\ date1.tm_mon = date2.tm_mon
          /\ date1.tm_mday < date2.tm_mday

\* C14: of two dates that share a daily index the slot holds the newer one:
\* once samples of both dates have been inserted, whatever was inserted or
\* recalculated last, the slot's summary is not that of the older date.
InvC14_SlotHoldsNewerDate ==
    \A j \in ValidSlots(g_minute_buffer) :
       LET di == get_daily_index_by_date(g_minute_buffer[j].timestamp)
       IN di \in DOMAIN g_daily_buffer =>
             ~OlderDate(g_daily_buffer[di].date, g_minute_buffer[j].timestamp)


\* the step was a call of the named operation of the configuration store
Called(op) == ev.op = op

\* the profile blob the load found was missing, of another size, or could
\* not be read
ProfileBlobUnusable ==
    \/ ev.value[1].old = <<>>
    \/ ev.value[1].old # <<>> /\ IsForeign(ev.value[1].old[1])
    \/ ev.value[1].rd # "ok"

\* C16: a load of the profile that finds the blob missing, unreadable or of
\* another size returns the default profile and stores it with one write
\* (the store accepting the write).
InvC16_UnusableProfileRecovered ==
    (Called("load_profile") /\ ProfileBlobUnusable /\ ev.value[1].wr = "ok") =>
       /\ ev.value[1].profile = DefaultProfile
       /\ nvs.profile = <<DefaultProfile>>
       /\ ev.value[1].writes = 1

\* C17: after a save of the profile the stored profile is the new one or
\* the one stored before, and the one stored before when the save returned
\* an error.
InvC17_SaveProfileAtomic ==
    Called("save_profile") =>
       /\ nvs.profile \in {ev.value[1].new, ev.value[1].old}
       /\ ev.rc # ESP_OK => nvs.profile = ev.value[1].old

InvC19_CredentialsNotDefaulted ==
    Called("load_wifi") =>
       LET old == ev.value[1].old
       IN /\ nvs = old
          /\ old.wifi = <<>> =>
                /\ ev.rc # ESP_OK /\ ev.value[1].wifi_config = <<>>
                /\ ev.value[1].rd = "ok" => ev.rc = ESP_ERR_NVS_NOT_FOUND
          /\ (old.wifi # <<>> /\ IsForeign(old.wifi[1])) =>
                /\ ev.rc # ESP_OK /\ ev.value[1].wifi_config = <<>>
                /\ ev.value[1].rd = "ok" => ev.rc = ESP_ERR_INVALID_SIZE

\* credentials of another size were found and refused
WitC19_ForeignCredentialsRefused ==
    /\ Called("load_wifi") /\ ev.value[1].rd = "ok"
    /\ nvs.wifi # <<>> /\ IsForeign(nvs.wifi[1])
    /\ ev.rc = ESP_ERR_INVALID_SIZE


\* a classification by the decision engine has just finished
Classified == ev.op = "status" /\ ev.value[1].latest # <<>>

\* every field the finished classification read has the value it has in p
ReadFrom(p) ==
    \A k \in DOMAIN ev.value[1].seen :
        ev.value[1].seen[k][2] = p[ev.value[1].seen[k][1]]

\* C15: whatever the interleaving of the link-host task (which replaces the
\* active profile on SetPlantProfile) and the analysis task, every field a
\* classification read comes from one profile: the whole old one or the
\* whole new one.
InvC15_ClassificationReadsOneProfile ==
    Classified => \E p \in AnalysisProfiles : ReadFrom(p)

\* the temperature of the classified sample is at or above the high limit
\* the engine read
AtOrAboveHighLimit ==
    /\ ev.value[1].seen[1][1] = "temp_high_limit"
    /\ ev.value[1].latest[1].temperature >= ev.value[1].seen[1][2]

\* C20: the engine evaluates the high temperature limit before any other
\* rule, and for a valid latest sample whose temperature is at or above that
\* limit it returns TEMP_TOO_HIGH having read nothing else of the profile:
\* no moisture rule has run, whatever the moisture, the ring store and the
\* previous condition.
InvC20_HighTemperatureFirst ==
    Classified =>
        /\ ev.value[1].seen[1][1] = "temp_high_limit"
        /\ AtOrAboveHighLimit =>
              /\ ev.value[1].condition = "TEMP_TOO_HIGH"
              /\ Len(ev.value[1].seen) = 1

\* a hot sample is classified when the previous condition was a dry one,
\* its moisture is at or below the wet threshold and it is far below the
\* sample two periods before: each of rules 3 and 4 would have returned
\* WATERING_COMPLETED
WitC20_HotSampleOfRewettedSoil ==
    /\ Classified
    /\ AtOrAboveHighLimit
    /\ ev.value[1].last \in {"SOIL_DRY", "NEEDS_WATERING"}
    /\ ev.value[1].latest[1].soil_moisture <= g_plant_profile.soil_wet_threshold
    /\ TRUE \in detect_watering_event(g_minute_buffer,
                    ev.value[1].latest[1].soil_moisture,
                    g_plant_profile.watering_threshold, now)


\* the sample stored j inserts before the last one (j = 0: the last one)
Inserted(j) ==
    MinuteSlot(g_minute_buffer,
               (g_minute_write_index + DATA_BUFFER_MINUTES_PER_DAY - 1 - j)
                   % DATA_BUFFER_MINUTES_PER_DAY)

\* the classification just finished was of the last sample stored, and the
\* clock and the store are as they were when it began
OfLastSample ==
    /\ Classified
    /\ ev.value[1].began = now
    /\ ev.value[1].latest[1] = Inserted(0)

\* the temperature of sample s is inside the limits of the active profile
WithinLimits(s) ==
    /\ s.temperature < g_plant_profile.temp_high_limit
    /\ s.temperature > g_plant_profile.temp_low_limit

\* the last three samples stored have the moistures 4000, 4000, 4000 - d
\* with d at least the watering threshold of the profile
ThreeSamplesWithDrop ==
    /\ Inserted(2).valid /\ Inserted(2).soil_moisture = 4000
    /\ Inserted(1).valid /\ Inserted(1).soil_moisture = 4000
    /\ Inserted(0).valid
    /\ 4000 - Inserted(0).soil_moisture >= g_plant_profile.watering_threshold

\* C21: after three samples with the moistures 4000, 4000, 4000 - d, where d
\* is at least the watering threshold of the profile and the temperature is
\* inside the limits of the profile, the classification of the latest sample
\* is WATERING_COMPLETED.
InvC21_DropOverTwoSamplesIsWatering ==
    (OfLastSample /\ ThreeSamplesWithDrop /\ WithinLimits(ev.value[1].latest[1]))
        => ev.value[1].condition = "WATERING_COMPLETED"


\* the number of the day of a date
DayNumber(date) == DaysFromCivil(date.tm_year + 1900, date.tm_mon + 1, date.tm_mday)

\* the daily buffer holds complete summaries of three consecutive days, its
\* three most recent ones, whose average moisture is above the dry threshold
ThreeDryDays ==
    LET got == data_buffer_get_recent_daily_summaries(g_daily_buffer, 3)
    IN /\ got.count = 3
       /\ \A i \in 1..2 : DayNumber(got.summaries[i + 1].date)
                            = DayNumber(got.summaries[i].date) + 1
       /\ \A i \in 1..3 :
            got.summaries[i].avg_soil_moisture.num
              > g_plant_profile.soil_dry_threshold * got.summaries[i].avg_soil_moisture.den

\* the engine detects no watering event for the classified sample
NoWateringEvent ==
    detect_watering_event(g_minute_buffer, ev.value[1].latest[1].soil_moisture,
                          g_plant_profile.watering_threshold, now) = {FALSE}

\* the case of the watering advisory: dry-days trigger three, three dry days,
\* the latest moisture at the dry threshold, the temperature inside the
\* limits, no watering event
AdvisoryCase ==
    /\ OfLastSample
    /\ g_plant_profile.soil_dry_days_for_watering = 3
    /\ ThreeDryDays
    /\ ev.value[1].latest[1].soil_moisture = g_plant_profile.soil_dry_threshold
    /\ WithinLimits(ev.value[1].latest[1])
    /\ NoWateringEvent

\* rule 5 applies: the condition kept is a dry one and the moisture is at or
\* below the wet threshold
RewettedAfterDry ==
    /\ ev.value[1].last \in {"SOIL_DRY", "NEEDS_WATERING"}
    /\ ev.value[1].latest[1].soil_moisture <= g_plant_profile.soil_wet_threshold

\* C22 as stated: in the case of the watering advisory the decision is
\* NEEDS_WATERING.
InvC22_AdvisoryAfterThreeDryDays ==
    AdvisoryCase => ev.value[1].condition = "NEEDS_WATERING"

\* C22: in the case of the watering advisory the decision is NEEDS_WATERING,
\* unless the previous condition was SOIL_DRY or NEEDS_WATERING and the
\* moisture is at or below the wet threshold (rule 5, which comes first).
InvC22_AdvisoryUnlessRewetted ==
    (AdvisoryCase /\ ~RewettedAfterDry) => ev.value[1].condition = "NEEDS_WATERING"

\* the advisory is given by the dry-days rule after a dry condition
WitC22_AdvisoryGiven ==
    /\ AdvisoryCase
    /\ ~RewettedAfterDry
    /\ ev.value[1].last \in {"SOIL_DRY", "NEEDS_WATERING"}
    /\ ev.value[1].rule = "dry_days"


\* the classification just finished was decided by rule 9: no earlier rule
\* matched the valid sample
KeptByRule9 == Classified /\ ev.value[1].rule = "keep"

\* C23: whenever rule 9 decides, the engine returns the state the analysis
\* task emitted in the round before, whatever it was, ERROR included.
InvC23_Rule9ReturnsPreviousState ==
    (KeptByRule9 /\ ev.value[1].previous # NoStatusYet)
        => ev.value[1].condition = ev.value[1].previous[1]


\* the seven states of the plant condition
SevenStates ==
    {"SOIL_DRY", "SOIL_WET", "NEEDS_WATERING", "WATERING_COMPLETED",
     "TEMP_TOO_HIGH", "TEMP_TOO_LOW", "ERROR_CONDITION"}

\* the outcome of the classification list for the sample s, the profile p
\* and the previous state last on the store as it is: the first of the rules
\* 2 to 9 whose condition holds.  Rule 4 compares s with the sample stored two
\* inserts before it, when the window of the last hour holds three samples.
FirstMatch(s, p, last) ==
    LET window == data_buffer_get_recent_minute_data(g_minute_buffer, 1, now)
        days   == data_buffer_get_recent_daily_summaries(g_daily_buffer,
                      p.soil_dry_days_for_watering)
    IN IF s.temperature >= p.temp_high_limit THEN "TEMP_TOO_HIGH"
       ELSE IF s.temperature <= p.temp_low_limit THEN "TEMP_TOO_LOW"
       ELSE IF /\ window.count >= 3
               /\ Inserted(2).valid
               /\ Inserted(2).soil_moisture - s.soil_moisture >= p.watering_threshold
            THEN "WATERING_COMPLETED"
       ELSE IF /\ last \in {"SOIL_DRY", "NEEDS_WATERING"}
               /\ s.soil_moisture <= p.soil_wet_threshold
            THEN "WATERING_COMPLETED"
       ELSE IF /\ days.ret = ESP_OK
               /\ days.count >= p.soil_dry_days_for_watering
               /\ \A k \in 1..days.count :
                     days.summaries[k].avg_soil_moisture.num
                       >= p.soil_dry_threshold * days.summaries[k].avg_soil_moisture.den
            THEN "NEEDS_WATERING"
       ELSE IF s.soil_moisture >= p.soil_dry_threshold THEN "SOIL_DRY"
       ELSE IF s.soil_moisture <= p.soil_wet_threshold THEN "SOIL_WET"
       ELSE last

\* C24: the decision for a valid latest sample is the outcome of the first
\* rule of the classification list, in the order 2 to 9, whose condition
\* holds, and it is one of the seven states.
InvC24_FirstMatchWins ==
    OfLastSample =>
        /\ ev.value[1].condition
             = FirstMatch(ev.value[1].latest[1], g_plant_profile, ev.value[1].last)
        /\ ev.value[1].condition \in SevenStates


\* a sampling tick has just finished: vTaskDelay() returned and the task is
\* back at ulTaskNotifyTake()
TickFinished == ev.op = "delay_done"

\* C25: a timer firing during a sampling tick is dropped: when the tick
\* finishes no notification is left pending, so ulTaskNotifyTake() blocks
\* until a later firing and no catch-up tick runs.
InvC25_FiringDuringTickIsDropped ==
    TickFinished => sensor_notify = 0


\* C26: a sampling pass is never aborted by failing sub-sensors: the step of
\* the sensor task that starts a tick hands exactly one composite sample to
\* the ring store, the store holds one sample more than before with that
\* composite as its latest, and the task goes on to its delay.
InvC26_PassAlwaysStoresOneSample ==
    [][ev'.op = "sample" =>
          /\ Len(ev'.value) = 1
          /\ InsertsDone' = InsertsDone + 1
          /\ Inserted(0)' = EntryOf(ev'.value[1])
          /\ sensor_pc' = "delay"]_vars

\* a pass in which every sub-sensor failed has been stored
WitC26_AllSubSensorsFailed ==
    /\ Sampled
    /\ ev.value[1].soil_moisture = 0 /\ ev.value[1].temperature = 0
    /\ ev.value[1].lux = 0 /\ ev.value[1].soil_temperature = 0
    /\ Inserted(0) = EntryOf(ev.value[1])


\* no handler of the command callback is executing
NoHandlerRunning == inflight = <<>>

\* the step was a write to the command characteristic that passed the length
\* checks or never reached them, while no handler was executing
WriteWithNoHandlerRunning ==
    /\ ev.op = "write"
    /\ ev.rc = 0
    /\ inflight # <<>> => ~Head(inflight).overlapped

\* C27: the busy flag is false whenever no handler is executing, and a valid
\* command frame written while no handler is executing is accepted: it is
\* not dropped as busy and its handler is the one now executing.
InvC27_BusyFlagClearedOnEveryExit ==
    /\ NoHandlerRunning => ~g_command_processing
    /\ WriteWithNoHandlerRunning =>
          /\ ~ev.busy
          /\ inflight # <<>>
          /\ Header(inflight[Len(inflight)].frame) = ev.cmd
          /\ g_command_processing

\* a command has just ended with an error status and a response that could
\* not be notified, and the flag is clear
WitC27_ClearedAfterFailedCommand ==
    /\ ev.op = "complete"
    /\ ev.hstatus # RESP_STATUS_SUCCESS
    /\ Len(ev.tx) = 1 /\ ~ev.tx[1].delivered
    /\ NoHandlerRunning
    /\ ~g_command_processing


\* the step was a call for the recent daily summaries
AskedRecentSummaries == ev.op = "recent_summaries"

\* the complete summaries the daily buffer holds
CompleteSummaries ==
    {g_daily_buffer[i] : i \in {j \in DOMAIN g_daily_buffer : g_daily_buffer[j].complete}}

\* C28: a call for the n most recent daily summaries, n from 1 to 30,
\* succeeds and returns at most n summaries, all of them complete, in
\* ascending order of date, and they are the n complete summaries of the
\* daily buffer with the latest dates (all of them when there are fewer).
InvC28_RecentSummariesAreTheLatestComplete ==
    AskedRecentSummaries =>
        LET n        == ev.value[1]
            got      == ev.value[2]
            Returned == {got.summaries[i] : i \in 1..Len(got.summaries)}
        IN /\ got.ret = ESP_OK
           /\ got.count = Len(got.summaries)
           /\ got.count <= n
           /\ \A i \in 1..got.count : got.summaries[i].complete
           /\ \A i \in 1..(got.count - 1) :
                 DayNumber(got.summaries[i].date) < DayNumber(got.summaries[i + 1].date)
           /\ Returned \subseteq CompleteSummaries
           /\ got.count = Min(n, Cardinality(CompleteSummaries))
           /\ \A c \in CompleteSummaries \ Returned : \A r \in Returned :
                 DayNumber(c.date) < DayNumber(r.date)

\* three summaries were asked for of a buffer that holds more complete ones,
\* and the three returned reach from January into February, whose slot
\* lies before those of January in the buffer
WitC28_LatestThreeAcrossMonths ==
    /\ AskedRecentSummaries
    /\ ev.value[1] = 3
    /\ ev.value[2].count = 3
    /\ Cardinality(CompleteSummaries) > 3
    /\ ev.value[2].summaries[1].date.tm_mon = 0
    /\ ev.value[2].summaries[3].date.tm_mon = 1


\* C29: every dispatched GetSensorData (0x01) command adds exactly one to the
\* sensor-read counter that GetDeviceInfo reports, and no other command
\* changes the counter (the restart of SystemReset left aside).
InvC29_OnlyGetSensorDataCounts ==
    [][(ev'.op = "complete" /\ ev'.cmd.command_id # CMD_SYSTEM_RESET) =>
          g_total_sensor_readings' =
             g_total_sensor_readings
               + (IF ev'.cmd.command_id = CMD_GET_SENSOR_DATA THEN 1 ELSE 0)]_vars


\* the step was the dispatch of a SystemReset command
ResetAnswered == ev.op = "complete" /\ ev.cmd.command_id = CMD_SYSTEM_RESET

\* a SystemReset command has sent its response and the device has not
\* restarted yet
ResetPending == inflight # <<>> /\ Head(inflight).pc = "delay"

\* C30: a SystemReset command sends exactly one response, with status
\* SUCCESS and the sequence number of the command, while the device is still
\* running; until the restart no other command is dispatched, and the
\* restart itself sends nothing, so no second response follows.
InvC30_ResetAnsweredOnceBeforeRestart ==
    /\ ResetAnswered =>
          /\ Len(ev.tx) = 1
          /\ ev.tx[1].resp = Response(CMD_SYSTEM_RESET, RESP_STATUS_SUCCESS,
                                      ev.cmd.sequence_num, 0, NoData)
          /\ ResetPending
    /\ (ResetPending /\ ev.op = "complete") => ResetAnswered
    /\ (ResetPending /\ ev.op # "complete") => ev.tx = <<>>
    /\ ev.op = "restart" => (ev.tx = <<>> /\ inflight = <<>>)

\* the response of a SystemReset has been notified to the subscribed client
\* and the device, with a sample in its store, has not restarted yet
WitC30_ResponseOutBeforeRestart ==
    /\ ResetAnswered
    /\ ev.tx[1].delivered
    /\ ResetPending
    /\ ValidSlots(g_minute_buffer) # {}
    /\ g_conn_handle # BLE_HS_CONN_HANDLE_NONE


\* the valid readings of the pass just made, in ascending order
ValidLux == SortedFloats(SelectSeq(ev.value[1], LAMBDA o : o # LuxFail))

\* C31: when at least three of the five light readings are valid, the value
\* stored is the mean of the sorted valid readings without the lowest and
\* the highest one, for three, four and five valid readings.
InvC31_LuxIsTrimmedMean ==
    (ev.op = "lux" /\ Len(ValidLux) >= 3) =>
        ev.value[2].lux * (Len(ValidLux) - 2)
          = SumFrom(ValidLux, 1, Len(ValidLux) - 1)


\* the length of the frame a handler leaves in the response buffer
FrameLength(resp) == SIZEOF_RESPONSE_PACKET + resp.data_length

\* C32: in every reachable state, the response frame that the handler of any
\* command builds, header and payload, fits the response buffer of 256 bytes.
InvC32_ResponseFitsBuffer ==
    \A f \in ProtocolFrames \cup TimezoneFrames :
       \A env \in EnvsFor(f.command_id, {"ok", "open"}) :
          FrameLength(process_ble_command(f, env).resp) <= BLE_RESPONSE_BUFFER_SIZE

\* the longest timezone string the device can hold has been set and was
\* returned by GetTimezone, terminator included
WitC32_LongestTimezoneReturned ==
    /\ Completed
    /\ ev.cmd.command_id = CMD_GET_TIMEZONE
    /\ ev.tx[1].resp.data_length = MAX_TIMEZONE_LENGTH
    /\ StrLen(g_timezone) = MAX_TIMEZONE_LENGTH - 1


\* the string a GetTimezone command returns in the current state: its
\* payload without the terminator
TimezoneReturned ==
    LET resp == handle_get_timezone(SEQ_A).resp
    IN SubSeq(resp.data.bytes, 1, resp.data_length - 1)

\* the dispatch of a SetTimezone frame is about to be answered
SetTimezoneDispatch ==
    /\ inflight # <<>>
    /\ Head(inflight).pc = "dispatch"
    /\ Head(inflight).frame.command_id = CMD_SET_TIMEZONE

\* the string the SetTimezone frame being dispatched carries
TimezoneSent ==
    SubSeq(Head(inflight).frame.data.bytes, 1, Head(inflight).frame.data_length)

\* C38: after a SetTimezone command answered SUCCESS, for a string of any
\* accepted length (1 to 64 bytes), GetTimezone returns exactly that string.
InvC38_GetTimezoneReturnsWhatWasSet ==
    [][ (/\ SetTimezoneDispatch
         /\ ev'.op = "complete"
         /\ ev'.hstatus = RESP_STATUS_SUCCESS)
        => TimezoneReturned' = TimezoneSent ]_vars

\* the same for the strings shorter than the stored array
InvC38_ShorterStringsRoundTrip ==
    [][ (/\ SetTimezoneDispatch
         /\ ev'.op = "complete"
         /\ ev'.hstatus = RESP_STATUS_SUCCESS
         /\ Len(TimezoneSent) < MAX_TIMEZONE_LENGTH)
        => TimezoneReturned' = TimezoneSent ]_vars


\* the sample the finished classification was given
ClassifiedSample == ev.value[1].latest[1]

\* C33: the engine emits TEMP_TOO_HIGH only for a sample whose temperature is
\* at or above the high limit of the profile and TEMP_TOO_LOW only for one
\* at or below the low limit; rule 9 never re-emits a temperature state for
\* a sample whose temperature is within the limits.
InvC33_TemperatureStatesOnlyAtLimits ==
    Classified =>
       /\ ev.value[1].condition = "TEMP_TOO_HIGH"
             => ClassifiedSample.temperature >= g_plant_profile.temp_high_limit
       /\ ev.value[1].condition = "TEMP_TOO_LOW"
             => ClassifiedSample.temperature <= g_plant_profile.temp_low_limit

\* the same for the classifications that rules 2 to 8 decide
InvC33_RulesBeforeTheLastAgree ==
    (Classified /\ ~KeptByRule9) =>
       /\ ev.value[1].condition = "TEMP_TOO_HIGH"
             => ClassifiedSample.temperature >= g_plant_profile.temp_high_limit
       /\ ev.value[1].condition = "TEMP_TOO_LOW"
             => ClassifiedSample.temperature <= g_plant_profile.temp_low_limit


\* C34: whatever dry-days trigger the active profile installed through
\* SetPlantProfile has (above 7, zero and negative values included), rule 6
\* never receives more than 7 daily summaries into its 7-element array.
InvC34_Rule6ReceivesAtMostSeven ==
    Classified => ev.value[1].rule # "overflow"

\* the same while the array has not been written past its end: the call of
\* rule 6 that is about to run returns no more summaries than the array holds
InvC34_Rule6CallFitsArray ==
    analysis.pc = "dry_days" =>
       data_buffer_get_recent_daily_summaries(g_daily_buffer,
           g_plant_profile.soil_dry_days_for_watering % 256).count
         <= DAILY_SUMMARIES_LEN


\* what the claim lets an observer of the link learn of a link
\* configuration: the SSID, whether the secret is empty, its first three
\* characters
SeenOfConfig(config) ==
    [ssid |-> config.ssid,
     empty |-> CStr(config.password) = <<>>,
     prefix |-> Prefix3(CStr(config.password))]

\* the state of the handlers with each secret, the active and the persisted
\* one, reduced to what an observer may learn of it
SeenOfState(st) ==
    [readings |-> st.readings, profile |-> st.profile, tz |-> st.tz,
     wifi |-> SeenOfConfig(st.wifi),
     nvs |-> [st.nvs EXCEPT !.wifi =
                 IF st.nvs.wifi = <<>> \/ IsForeign(st.nvs.wifi[1])
                 THEN st.nvs.wifi
                 ELSE <<SeenOfConfig(st.nvs.wifi[1])>>]]

\* every command of the protocol, with the payloads the sessions send
ObservedFrames ==
    ProtocolFrames \cup LinkFrames
    \cup {Frame(CMD_SET_TIMEZONE, SEQ_A, Len(Str_KST), TzPayload(Str_KST))}

\* two results of a handler that an observer cannot tell apart: the same
\* response, and states left of which the same may be learnt
SameToObserver(a, b) ==
    /\ a.resp = b.resp
    /\ SeenOfState(a.st) = SeenOfState(b.st)

\* the step replaces a stored secret, the active or the persisted one, by
\* another with the same first three characters (both non-empty) and changes
\* nothing else a handler reads
SecretReplaced ==
    /\ Cur' # Cur
    /\ \A old \in {Cur} : \A new \in {Cur'} : SeenOfState(old) = SeenOfState(new)
    /\ UNCHANGED <<now, storeVars, g_conn_handle>>

\* C35: two stored secrets that are both non-empty and agree on their first
\* three characters cannot be told apart over the link: the response to
\* every command is the same with either, GetLinkConfig included, and so is
\* everything a later response can depend on.
InvC35_SecretSeenOnlyByPrefix ==
    [][ SecretReplaced =>
          \A f \in ObservedFrames :
             \A env \in EnvsFor(f.command_id, NvsOutcomes) :
                \A with_old \in {process_ble_command(f, env)} :
                   \A with_new \in {process_ble_command(f, env)'} :
                      SameToObserver(with_old, with_new) ]_vars

\* the secret "abcd" was stored and persisted, then replaced by "abcdef"
WitC35_SecretReplacedBySamePrefix ==
    /\ Completed /\ ev.cmd.command_id = CMD_SET_WIFI_CONFIG
    /\ CStr(g_wifi_config.password) = Str_abcdef
    /\ nvs.wifi # <<>>
    /\ CStr(nvs.wifi[1].password) = SubSeq(Str_abcdef, 1, 4)


\* the slots of two dates have just been computed
IndexedDates == ev.op = "daily_index"

\* C36: two distinct dates less than 30 days apart are mapped by the daily
\* hash (month * 31 + day) mod 30 to different slots of the daily buffer, so
\* the summaries of the last 30 days never overwrite one another.
InvC36_DatesWithinThirtyDaysDiffer ==
    (/\ IndexedDates
     /\ DayNumber(ev.value[1]) # DayNumber(ev.value[2])
     /\ DayNumber(ev.value[2]) - DayNumber(ev.value[1]) < DATA_BUFFER_DAYS_PER_MONTH)
        => ev.value[3] # ev.value[4]

\* the same for two dates of one month
InvC36_DatesOfOneMonthDiffer ==
    (/\ IndexedDates
     /\ ev.value[1].tm_mon = ev.value[2].tm_mon
     /\ ev.value[1].tm_year = ev.value[2].tm_year)
        => ev.value[3] # ev.value[4]


\* the slot e holds a sample as one insert wrote it: the one of the pass
\* under way or one of the samples stored before
InsertedWhole(e) ==
    \/ e = EntryOf(read_all_sensors(PreemptedReading))
    \/ \E k \in 1..RoundFill : e = SampleAt(k)

\* C37: under every interleaving of the sampling task with the link-host
\* task, a query of the ring store never returns a minute slot that mixes
\* the fields of two inserts: the sample returned equals, in all fields, a
\* sample that was inserted as a whole.
InvC37_QueryReturnsWholeSample ==
    (/\ Completed
     /\ ev.cmd.command_id = CMD_GET_TIME_DATA
     /\ ev.hstatus = RESP_STATUS_SUCCESS)
        => InsertedWhole(ev.tx[1].resp.data.entry)

\* the same for the query of the latest sample, which reads the slot before
\* the write index
InvC37_LatestIsWholeSample ==
    (/\ Completed
     /\ ev.cmd.command_id = CMD_GET_SENSOR_DATA
     /\ ev.hstatus = RESP_STATUS_SUCCESS)
        => \/ ev.tx[1].resp.data = SoilDataOf(EntryOf(read_all_sensors(PreemptedReading)))
           \/ \E k \in 1..RoundFill : ev.tx[1].resp.data = SoilDataOf(SampleAt(k))


\* the dispatch of a SetPlantProfile frame is about to be answered
SetProfileDispatch ==
    /\ inflight # <<>>
    /\ Head(inflight).pc = "dispatch"
    /\ Head(inflight).frame.command_id = CMD_SET_PLANT_PROFILE

\* C39: a SetPlantProfile command never leaves the active and the persisted
\* profile different from each other: answered SUCCESS, both equal the
\* payload; answered with any other status (wrong length, store error at any
\* step), both are unchanged.
InvC39_ProfileSetInBothOrNeither ==
    [][ (SetProfileDispatch /\ ev'.op = "complete") =>
          IF ev'.hstatus = RESP_STATUS_SUCCESS
          THEN /\ g_plant_profile' = Head(inflight).frame.data.profile
               /\ nvs'.profile = <<Head(inflight).frame.data.profile>>
          ELSE /\ g_plant_profile' = g_plant_profile
               /\ nvs'.profile = nvs.profile ]_vars

\* the same without the persisted profile after an error: answered SUCCESS,
\* both equal the payload; answered with any other status, the active
\* profile is unchanged
InvC39_ActiveProfileFollowsStatus ==
    [][ (SetProfileDispatch /\ ev'.op = "complete") =>
          IF ev'.hstatus = RESP_STATUS_SUCCESS
          THEN /\ g_plant_profile' = Head(inflight).frame.data.profile
               /\ nvs'.profile = <<Head(inflight).frame.data.profile>>
          ELSE g_plant_profile' = g_plant_profile ]_vars


\* rule 4 was evaluated in the classification just finished, of the last
\* sample stored, with three samples or more in the window of the last hour
Rule4Evaluated ==
    /\ OfLastSample
    /\ ev.value[1].rule \notin {"high", "low"}
    /\ data_buffer_get_recent_minute_data(g_minute_buffer, 1, now).count >= 3

\* C40: whenever rule 4 is evaluated with at least three samples in the
\* recent window, the reference moisture it compares against is that of the
\* sample inserted exactly two inserts before the latest one, for every
\* number of samples in the last hour (60 or more included) and every
\* position of the write index.
InvC40_ReferenceIsTwoInsertsBack ==
    Rule4Evaluated =>
        moisture_2_samples_ago(g_minute_buffer, now) = {Inserted(2).soil_moisture}

\* the same while the last hour holds at most sixty samples
InvC40_ReferenceInShortWindow ==
    (/\ Rule4Evaluated
     /\ Cardinality({i \in ValidSlots(g_minute_buffer) :
                       MkTime(g_minute_buffer[i].timestamp) >= now - SECS_PER_HOUR}) <= 60)
        => moisture_2_samples_ago(g_minute_buffer, now) = {Inserted(2).soil_moisture}


=============================================================================
